---- MODULE Spec2Model ----
(***************************************************************************)
(* Resumable CSV enrichment pipelines of the repository:                   *)
(*   process_csv  (barcode_image_url_finder.py)                            *)
(*   enrich_csv   (html_barcode_image_fetcher.py)                          *)
(* A behaviour is a sequence of runs of one pipeline on one input, one     *)
(* output path and one checkpoint path.  A run may be killed between any   *)
(* two file operations; the files survive, the memory of the run does not. *)
(***************************************************************************)
EXTENDS Integers, Sequences, FiniteSets, TLC

\* ---------------------------------------------------------------- bounds
MaxRows == 2
MaxRuns == 2
MaxBatch == 2
MaxRetries == 2
MaxChars == 3
MaxCands == 2
MaxExtra == 1
MaxLangs == 2

\* ------------------------------------------------------------ input data
\* A raw barcode cell is a sequence of one-character strings.
RawBarcodes == { <<"-">>, <<"1">>, <<"2", "-">> }

DigitChars == {"0", "1", "2", "3", "4", "5", "6", "7", "8", "9"}

\* a character that is a digit for str.isdigit() and not a decimal digit:
\* "sup2" stands for the superscript two, U+00B2
OtherDigitChars == {"sup2"}

\* ch.isdigit()
IsDigit(ch) == ch \in DigitChars \cup OtherDigitChars

RECURSIVE normalize_barcode(_)
normalize_barcode(raw) ==
    IF raw = <<>> THEN <<>>
    ELSE IF IsDigit(Head(raw))
         THEN <<Head(raw)>> \o normalize_barcode(Tail(raw))
         ELSE normalize_barcode(Tail(raw))

Keys == { normalize_barcode(r) : r \in RawBarcodes }

\* normalize_barcode of html_barcode_image_fetcher.py, the same body
RECURSIVE fetcher_normalize_barcode(_)
fetcher_normalize_barcode(raw) ==
    IF raw = <<>> THEN <<>>
    ELSE IF IsDigit(Head(raw))
         THEN <<Head(raw)>> \o fetcher_normalize_barcode(Tail(raw))
         ELSE fetcher_normalize_barcode(Tail(raw))

None == "None"

\* Outcomes of one call of find_image_url_zero_cost: (img, source).
FindResults == { <<None, None>>, <<"u1", "openfoodfacts">> }

\* Outcomes of find_images_from_sites for a non-empty barcode: the results
\* of lookup_go_upc (imgs, description) and of lookup_barcode_lookup.
SiteResults == { [go_upc |-> <<>>, go_upc_description |-> None, barcode_lookup |-> <<>>],
                 [go_upc |-> <<"g1", "g2">>, go_upc_description |-> "d1",
                  barcode_lookup |-> <<"b1">>] }

Pipelines == {"process_csv", "enrich_csv"}

\* checkpoint_every as given on the command line (zero and negative allowed)
CheckpointEveryValues == 0 .. MaxBatch

RECURSIVE SeqsUpTo(_, _)
SeqsUpTo(S, n) ==
    IF n = 0 THEN { <<>> }
    ELSE LET shorter == SeqsUpTo(S, n - 1)
         IN  shorter \cup { Append(s, x) : s \in { t \in shorter : Len(t) = n - 1 }, x \in S }

\* ------------------------------------------------------------------ files
\* A row of pending_batch: the input row of index idx with the result
\* columns res added (new_row / row_out).
RowLine(i, r) == [kind |-> "row", idx |-> i, res |-> r]

\* A line of the output file.  No code path reads the content of the output
\* file (the programs only test whether it can be opened), so a data line
\* is identified by the input record it was written for; the values of the
\* rows a run builds are kept in produced.
HeaderLine == [kind |-> "header", idx |-> -1]

FileLine(r) == [kind |-> "row", idx |-> r.idx]

NoFile == [exists |-> FALSE, lines |-> <<>>]

\* Content of the checkpoint file.  kind: "missing", "unreadable", "empty"
\* (a file truncated by open(.., "w") and not yet written), "invalid_json",
\* "not_object", "object".  For an object, t/v/s describe the value of the
\* processed_count member and extra tells whether other members are present.
CkptFile(k, t, v, s, e) == [kind |-> k, t |-> t, v |-> v, s |-> s, extra |-> e]

CkptMissing == CkptFile("missing", "absent", 0, <<>>, FALSE)

CkptEmpty == CkptFile("empty", "absent", 0, <<>>, FALSE)

\* json.dump({"processed_count": n}, cf)
CkptDump(n) == CkptFile("object", "int", n, <<>>, FALSE)

VARIABLES
    pipeline,          \* which of the two programs is run
    rows,              \* the input rows (raw barcode cells), fixed
    outFile,           \* progress_csv on disk
    ckptFile,          \* ckpt_path on disk
    pc,                \* position of the current run
    phase,             \* "periodic" commit inside the loop or "final" flush
    resume,            \* argument resume
    checkpoint_every,  \* argument checkpoint_every
    start_index,
    needs_header,
    barcode_to_image,  \* the cache dict of process_csv
    processed_count,
    pending_batch,
    idx,               \* loop variable of for idx in range(start_index, total)
    runs,              \* number of runs started
    fixed_every,       \* scenario: whether every run gets the same checkpoint_every
    queryCount,        \* history: adapter query sequences per key in this run
    produced,          \* history: the rows built by this run, in order
    written,           \* history: input indices appended by this run, in order
    commits,           \* history: processed_count values written by this run
    outAtStart,        \* history: output file when this run started
    ckptAtStart,       \* history: checkpoint file when this run started
    lastRun,           \* history: how the most recent ended run ended
    prevRun,           \* history: lastRun as it was when this run started
    harness,           \* one call of a retry harness (see HarnessCall)
    env,               \* the input's columns and the output directory
    scraper,           \* ImageScraper: its files, configuration and run
    call               \* one application of a pure function

vars == << pipeline, rows, outFile, ckptFile, pc, phase, resume, checkpoint_every,
           start_index, needs_header, barcode_to_image, processed_count,
           pending_batch, idx, runs, fixed_every, queryCount, produced, written,
           commits, outAtStart, ckptAtStart, lastRun, prevRun, harness, env,
           scraper, call >>

total == Len(rows)

NoRun == [outcome |-> "none", committed |-> FALSE, resolved |-> {}]


\* ------------------------------------------------- loading the checkpoint
DigitVal(ch) ==
    CASE ch = "0" -> 0 [] ch = "1" -> 1 [] ch = "2" -> 2 [] ch = "3" -> 3
      [] ch = "4" -> 4 [] ch = "5" -> 5 [] ch = "6" -> 6 [] ch = "7" -> 7
      [] ch = "8" -> 8 [] ch = "9" -> 9 [] OTHER -> 0

AllDigits(s) == s # <<>> /\ \A i \in 1 .. Len(s) : s[i] \in DigitChars

RECURSIVE DigitsValue(_)
DigitsValue(s) ==
    IF s = <<>> THEN 0
    ELSE 10 * DigitsValue(SubSeq(s, 1, Len(s) - 1)) + DigitVal(s[Len(s)])

\* int(x) of Python for the JSON values the model distinguishes:
\* a number, a string (decimal digits with an optional sign), null.
IntConvertible(c) ==
    \/ c.t = "absent"
    \/ c.t = "int"
    \/ c.t = "str" /\ ( \/ AllDigits(c.s)
                        \/ c.s # <<>> /\ Head(c.s) = "-" /\ AllDigits(Tail(c.s)) )

IntOf(c) ==
    CASE c.t = "absent" -> 0
      [] c.t = "int" -> c.v
      [] c.t = "str" -> IF Head(c.s) = "-" THEN 0 - DigitsValue(Tail(c.s))
                        ELSE DigitsValue(c.s)
      [] OTHER -> 0

\* start_index = 0; if resume: try: ... int(ckpt.get("processed_count", 0))
\* except Exception: (start_index stays 0)
\* raised tells whether an exception leaves the block (none does).
Loaded(n) == [raised |-> FALSE, start_index |-> n]

\* variant: the checkpoint is not consulted
LoadCheckpointIgnored(res, c) == Loaded(0)

\* variant: resumes one row after the recorded count
LoadCheckpointOffByOne(res, c) ==
    IF ~res THEN Loaded(0)
    ELSE IF c.kind # "object" THEN Loaded(0)
    ELSE IF IntConvertible(c) THEN Loaded(IntOf(c) + 1)
    ELSE Loaded(0)

\* variant: "except FileNotFoundError" in place of "except Exception"
LoadCheckpointNarrowExcept(res, c) ==
    IF ~res THEN Loaded(0)
    ELSE IF c.kind = "missing" THEN Loaded(0)
    ELSE IF c.kind = "object" /\ IntConvertible(c) THEN Loaded(IntOf(c))
    ELSE [raised |-> TRUE, start_index |-> 0]

LoadCheckpoint(res, c) ==
    IF ~res THEN Loaded(0)
    ELSE IF c.kind # "object" THEN Loaded(0)
    ELSE IF IntConvertible(c) THEN Loaded(IntOf(c))
    ELSE Loaded(0)

\* variant: the existing output is not looked at, the header is always due
HeaderNeededAlways(res, f) == TRUE

\* needs_header = True; if resume: try: open(progress_csv, "r"):
\* needs_header = False  except: needs_header = True
HeaderNeeded(res, f) == IF res THEN ~f.exists ELSE TRUE

\* mode = "a" if not needs_header else "w"
AppendMode(nh) == IF nh THEN "w" ELSE "a"

\* variant: the commit test is made on the count before the increment
CommitDueOffset(n, every) == every > 0 /\ (n - 1) % every = 0

\* checkpoint_every > 0 and (processed_count % checkpoint_every == 0)
CommitDue(n, every) == every > 0 /\ n % every = 0

\* variant: the rows left after the loop are not written
FlushSkipped(batch) == FALSE

\* variant: the final write is made unconditionally
FlushAlways(batch) == TRUE

\* "if pending_batch:" after the loop
FlushDue(batch) == batch # <<>>

\* variant: the batch is not emptied after a periodic commit
AfterAppendKept(ph, batch) == batch

\* pending_batch after append_rows(pending_batch): inside the loop the
\* caller sets pending_batch = [], the final flush leaves it alone.
AfterAppend(ph, batch) == IF ph = "periodic" THEN <<>> ELSE batch

\* variant: the cache is never consulted
CacheMissAlways(norm, cache) == TRUE

\* norm not in barcode_to_image
CacheMiss(norm, cache) == norm \notin DOMAIN cache

\* variant: the checkpoint is written before the rows
CommitOrderSwapped == << "ckpt", "append" >>

\* A commit is append_rows(...) followed by the write of the checkpoint file.
CommitOrder == << "append", "ckpt" >>

OpenPc(op) == IF op = "append" THEN "append_open" ELSE "ckpt_open"

\* pc after the operation op of a commit has finished
AfterOp(op, ph) ==
    IF op = CommitOrder[1] THEN OpenPc(CommitOrder[2])
    ELSE IF ph = "periodic" THEN "loop" ELSE "done"

\* rows[idx] of Python for idx < len(rows): negative idx counts from the end
IndexOk(i) == i >= 0 - total

RowAt(i) == IF i >= 0 THEN rows[i + 1] ELSE rows[total + i + 1]

EmptyDict == [k \in {} |-> <<None, None>>]

OrEmpty(x) == IF x = None THEN "" ELSE x

FirstOrEmpty(l) == IF l # <<>> THEN l[1] ELSE ""

RunningPcs == {"loop", "append_open", "append_write", "ckpt_open", "ckpt_write"}

Resolved == { k \in Keys : queryCount[k] > 0 }

RunRecord(o, cs) == [outcome |-> o, committed |-> cs # <<>>, resolved |-> Resolved]

\* ---------------------------------------------------------- retry harness
\* find_image_url_zero_cost, lookup_go_upc and lookup_barcode_lookup: a loop
\* of attempts per source, a sleep after every attempt that does not return.
\* variant: the beauty database is asked first
OpenFactsSourcesReordered ==
    << << "world.openbeautyfacts.org", "openbeautyfacts" >>,
       << "world.openfoodfacts.org", "openfoodfacts" >>,
       << "world.openpetfoodfacts.org", "openpetfoodfacts" >> >>

OPEN_FACTS_SOURCES ==
    << << "world.openfoodfacts.org", "openfoodfacts" >>,
       << "world.openbeautyfacts.org", "openbeautyfacts" >>,
       << "world.openpetfoodfacts.org", "openpetfoodfacts" >> >>

HarnessFns == {"find_image_url_zero_cost", "lookup_go_upc", "lookup_barcode_lookup"}

\* the sources a harness walks through, in its order
SourcesOf(fn) ==
    CASE fn = "find_image_url_zero_cost" ->
             [i \in 1 .. Len(OPEN_FACTS_SOURCES) |-> OPEN_FACTS_SOURCES[i][2]]
      [] fn = "lookup_go_upc" -> << "go_upc" >>
      [] fn = "lookup_barcode_lookup" -> << "barcode_lookup" >>

AllSources == UNION { { SourcesOf(fn)[i] : i \in 1 .. Len(SourcesOf(fn)) } : fn \in HarnessFns }

\* variant: one attempt more than retries in every harness
AttemptsOneMore(fn, R) == R + 1

\* variant: exactly retries attempts in every harness
AttemptsNoExtra(fn, R) == R

\* attempts per source: range(retries) in find_image_url_zero_cost,
\* range(retries + 1) in lookup_go_upc and lookup_barcode_lookup
Attempts(fn, R) == IF fn = "find_image_url_zero_cost" THEN R ELSE R + 1

\* A dict of Python as a function; d.get(key) gives None for a missing key.
Get(d, key) == IF key \in DOMAIN d THEN d[key] ELSE None

\* truth value of a dict, a list or a string: empty is false
Truthy(x) == DOMAIN x # {}

\* The answer to requests.get: an exception (timeout, connection), or a
\* status code with a body.  json: "invalid", "list" or "dict"; for a dict,
\* status is its member status and product its member product
\* (product_is_dict tells whether that is a dict).
Response(k, code, js, st, isd, prod) ==
    [kind |-> k, status_code |-> code, json |-> js, status |-> st,
     product_is_dict |-> isd, product |-> prod]

NoProduct == [k \in {} |-> None]

OpenFactsResponses ==
    { Response("exception", 0, "invalid", 0, FALSE, NoProduct),
      Response("http", 404, "dict", 0, FALSE, NoProduct),
      Response("http", 500, "invalid", 0, FALSE, NoProduct),
      Response("http", 200, "invalid", 0, FALSE, NoProduct),
      Response("http", 200, "list", 0, FALSE, NoProduct),
      Response("http", 200, "dict", 0, FALSE, NoProduct),
      Response("http", 200, "dict", 1, FALSE, NoProduct),
      Response("http", 200, "dict", 1, TRUE, NoProduct),
      Response("http", 200, "dict", 1, TRUE, [image_front_url |-> None, image_url |-> ""]),
      Response("http", 200, "dict", 1, TRUE, [image_url |-> "u2"]),
      Response("http", 200, "dict", 1, TRUE, [image_front_url |-> "u1", image_url |-> "u2"]) }

\* The exception the body of fetch_openfacts_product raises for an answer:
\* requests.get itself, raise_for_status (HTTPError is a RequestException),
\* resp.json().
ExceptionOf(resp) ==
    IF resp.kind = "exception" THEN "RequestException"
    ELSE IF resp.status_code = 404 THEN "none"
    ELSE IF resp.status_code >= 400 THEN "RequestException"
    ELSE IF resp.json = "invalid" THEN "JSONDecodeError"
    ELSE "none"

\* variant: only "except requests.RequestException"
CaughtRequestOnly(exc) == exc = "RequestException"

\* except requests.RequestException / except json.JSONDecodeError
Caught(exc) == exc \in {"RequestException", "JSONDecodeError"}

\* an exception leaves fetch_openfacts_product
Escapes(resp) == ExceptionOf(resp) # "none" /\ ~Caught(ExceptionOf(resp))

\* fetch_openfacts_product: the product dict or None
NoneResult == [is_none |-> TRUE, value |-> NoProduct]

Some(v) == [is_none |-> FALSE, value |-> v]

fetch_openfacts_product(resp) ==
    IF resp.kind = "exception" THEN NoneResult
    ELSE IF resp.status_code = 404 THEN NoneResult
    ELSE IF resp.status_code >= 400 THEN NoneResult
    ELSE IF resp.json = "invalid" THEN NoneResult
    ELSE IF resp.json # "dict" THEN NoneResult
    ELSE IF resp.status = 1 /\ resp.product_is_dict THEN Some(resp.product)
    ELSE NoneResult

\* pick_best_image_url.  A product maps keys to values; a value that is not
\* a string is None or "<int>".  The value of selected_images, when the key
\* is there, is [is_dict, sections], a section is [is_dict, sizes], a size
\* is [is_dict, items] with items the (language, value) pairs of the dict in
\* the order of their insertion.
PreferredKeys ==
    << "image_front_url", "image_url", "image_pack_url", "image_ingredients_url",
       "image_nutrition_url", "image_small_url", "image_thumb_url" >>

NotStrings == { None, "<int>" }

\* isinstance(url, str)
IsStr(v) == v \notin NotStrings

\* s.strip() for the strings used here
Strip(src) ==
    IF src = " a " THEN "a"
    ELSE IF src = " u3 " THEN "u3"
    ELSE IF src = "  " THEN ""
    ELSE src

\* variant: "if url" in place of "if url.strip()"
UsableUrlNoStrip(v) == IsStr(v) /\ v # ""

\* isinstance(url, str) and url.strip()
UsableUrl(v) == IsStr(v) /\ Strip(v) # ""

RECURSIVE PickFrom(_, _)
PickFrom(product, keys) ==
    IF keys = <<>> THEN None
    ELSE IF UsableUrl(Get(product, Head(keys))) THEN Strip(Get(product, Head(keys)))
    ELSE PickFrom(product, Tail(keys))

Sections == << "front", "ingredients", "nutrition" >>

Sizes == << "display", "small", "thumb" >>

\* the language keys used here, in the order of sorted()
LangOrder == << "de", "en", "fr" >>

HasKey(items, lang) == \E i \in 1 .. Len(items) : items[i][1] = lang

ItemOf(items, lang) == items[CHOOSE i \in 1 .. Len(items) : items[i][1] = lang]

RECURSIVE SortedFrom(_, _)
SortedFrom(items, langs) ==
    IF langs = <<>> THEN <<>>
    ELSE (IF HasKey(items, Head(langs)) THEN << ItemOf(items, Head(langs)) >> ELSE <<>>)
            \o SortedFrom(items, Tail(langs))

\* variant: the items in the order of their insertion
ItemsAsInserted(items) == items

\* sorted(sz.items())
SortedItems(items) == SortedFrom(items, LangOrder)

\* "for _, candidate in sorted(sz.items()): if isinstance(candidate, str)
\* and candidate.strip(): return candidate.strip()"
RECURSIVE FirstUsable(_)
FirstUsable(items) ==
    IF items = <<>> THEN None
    ELSE IF UsableUrl(Head(items)[2]) THEN Strip(Head(items)[2])
    ELSE FirstUsable(Tail(items))

\* 'en' if it holds a non-blank string, else the first of the sorted items
PickLang(items) ==
    IF HasKey(items, "en") /\ UsableUrl(ItemOf(items, "en")[2])
    THEN Strip(ItemOf(items, "en")[2])
    ELSE FirstUsable(SortedItems(items))

\* for size in ("display", "small", "thumb")
RECURSIVE PickSizes(_, _)
PickSizes(sizes, names) ==
    IF names = <<>> THEN None
    ELSE IF /\ Head(names) \in DOMAIN sizes
            /\ sizes[Head(names)].is_dict
            /\ PickLang(sizes[Head(names)].items) # None
         THEN PickLang(sizes[Head(names)].items)
         ELSE PickSizes(sizes, Tail(names))

\* for section in ("front", "ingredients", "nutrition")
RECURSIVE PickSections(_, _)
PickSections(sections, names) ==
    IF names = <<>> THEN None
    ELSE IF /\ Head(names) \in DOMAIN sections
            /\ sections[Head(names)].is_dict
            /\ PickSizes(sections[Head(names)].sizes, Sizes) # None
         THEN PickSizes(sections[Head(names)].sizes, Sizes)
         ELSE PickSections(sections, Tail(names))

pick_best_image_url(product) ==
    IF PickFrom(product, PreferredKeys) # None
    THEN PickFrom(product, PreferredKeys)
    ELSE IF "selected_images" \in DOMAIN product /\ product["selected_images"].is_dict
         THEN PickSections(product["selected_images"].sections, Sections)
         ELSE None

\* The answer of _get (the page text, or None on an exception and on a
\* status >= 400) and what the extraction finds in the page.
Page(k, code, txt, imgs, desc) ==
    [kind |-> k, status_code |-> code, text |-> txt, imgs |-> imgs, desc |-> desc]

PageResponses ==
    { Page("exception", 0, "", <<>>, None),
      Page("http", 404, "h", <<>>, None),
      Page("http", 503, "h", <<>>, None),
      Page("http", 200, "", <<>>, None),
      Page("http", 200, "h", <<>>, None),
      Page("http", 200, "h", <<>>, "d1"),
      Page("http", 200, "h", << "g1", "g2" >>, None) }

\* _get(url): None or resp.text
GetPage(resp) ==
    IF resp.kind = "exception" THEN None
    ELSE IF resp.status_code >= 400 THEN None
    ELSE resp.text

\* "if html:" and then "if imgs or desc:" / "if imgs:"
PageHit(fn, resp) ==
    /\ GetPage(resp) # None
    /\ GetPage(resp) # ""
    /\ IF fn = "lookup_go_upc" THEN resp.imgs # <<>> \/ resp.desc # None
       ELSE resp.imgs # <<>>

\* what the spec calls the outcome of an attempt
OutcomeOf(resp) ==
    IF resp.kind = "exception" THEN "network"
    ELSE IF resp.status_code = 404 THEN "not_found"
    ELSE IF resp.status_code >= 400 THEN "network"
    ELSE "answer"

OpenFactsOutcome(resp) ==
    IF OutcomeOf(resp) # "answer" THEN OutcomeOf(resp)
    ELSE IF resp.json # "dict" THEN "malformed"
    ELSE IF resp.status # 1 THEN "not_found"
    ELSE IF ~resp.product_is_dict THEN "malformed"
    ELSE IF pick_best_image_url(resp.product) = None THEN "no_image"
    ELSE "found"

NoResult == [img |-> None, source |-> None, imgs |-> <<>>, desc |-> None]

ZeroCount == [s \in AllSources |-> 0]

IdleHarness ==
    [fn |-> "none", barcode |-> <<>>, retries |-> 0, pc |-> "idle", src |-> 1, attempt |-> 0,
     fetches |-> ZeroCount, sleeps |-> ZeroCount, last |-> "none",
     retried_not_found |-> FALSE, yielded |-> {}, result |-> NoResult]

\* variant: a "not found" answer ends the attempts on the source
AfterFailureSkipNotFound(attempt, n, outcome) ==
    IF outcome = "not_found" THEN n ELSE attempt + 1

\* The attempt that follows one that did not return, among n: the loop goes
\* on whatever the outcome was (the fetch gives None for every failure).
AfterFailure(attempt, n, outcome) == attempt + 1

\* The position of the loops "for source: for attempt in range(n)" at
\* (src, attempt): the next fetch, or the return after the last source.
Enter(h, s, a) ==
    LET n == Attempts(h.fn, h.retries)
        last_src == Len(SourcesOf(h.fn))
    IN  IF n <= 0 THEN [h EXCEPT !.pc = "returned", !.result = NoResult]
        ELSE IF a < n THEN [h EXCEPT !.pc = "fetch", !.src = s, !.attempt = a]
        ELSE IF s < last_src THEN [h EXCEPT !.pc = "fetch", !.src = s + 1, !.attempt = 0]
        ELSE [h EXCEPT !.pc = "returned", !.result = NoResult]

\* ------------------------------------------------------------ ImageScraper
\* image_scraper.py, ImageScraper.process_csv.  A product is represented by
\* its Image Src: "" (none), "old" (present in the input), "new" (found by
\* a search of this program); Image Alt Text goes with it.
InputSrcs == { "", "old" }

\* search_product_images(product): no result, or a best result
SearchOutcomes == { "", "new" }

\* variant: the test for an image already present is never true
HasImageNever(src) == FALSE

\* product.get('Image Src') and product.get('Image Src').strip()
HasImage(src) == src # "" /\ Strip(src) # ""

\* The checkpoint section of the configuration.
ScraperConfig(en, res, n) == [enabled |-> en, resume |-> res, every_n_products |-> n]

ScraperConfigs ==
    { ScraperConfig(en, FALSE, n) : en \in BOOLEAN, n \in 0 .. MaxBatch }

\* The checkpoint file: missing, empty (truncated and not written), or the
\* object {input_file, output_file, last_index, timestamp}.
ScraperCkpt(k, i) == [kind |-> k, last_index |-> i]

NoScraperCkpt == ScraperCkpt("missing", 0)

\* load_checkpoint: the object when checkpointing and resume are on and the
\* file can be read and parsed, else None
CkptLoaded(cfg, ck) == cfg.enabled /\ cfg.resume /\ ck.kind = "object"

\* start_index = 1; if ckpt and ckpt.get('input_file') == input_file:
\* last_index = int(...); if last_index >= 1: start_index = last_index + 1
ResumePosition(cfg, ck) ==
    IF CkptLoaded(cfg, ck) /\ ck.last_index >= 1 THEN ck.last_index + 1 ELSE 1

\* "if i % save_interval == 0" (ZeroDivisionError for 0 is handled apart)
SaveDue(i, n) == n > 0 /\ i % n = 0

NoOut == [exists |-> FALSE, rows |-> <<>>]

IdleScraper ==
    [cfg |-> ScraperConfig(FALSE, FALSE, 1), input |-> <<>>, products |-> <<>>,
     out |-> NoOut, ckpt |-> NoScraperCkpt, pc |-> "idle", sphase |-> "periodic",
     i |-> 1, start_index |-> 1, runs |-> 0, searched |-> {}, saved |-> {},
     out_at_start |-> NoOut, lost_update |-> FALSE,
     downloaded_count |-> 0, failed_count |-> 0]

\* -------------------------------------------------------------- environment
\* has_column: barcode_col is among the columns of the input; out_dir: the
\* output directory exists; dir_at_start: whether it did when the run began
Env(col, dir) == [has_column |-> col, out_dir |-> dir, dir_at_start |-> dir]

GoodEnv == Env(TRUE, FALSE)

\* no function is being applied
IdleCall == [fn |-> "none", pc |-> "idle", arg |-> <<>>, result |-> <<>>]

\* ------------------------------------------------------------------ Init
InitRunCore ==
    /\ pc = "idle"
    /\ phase = "periodic"
    /\ resume = FALSE
    /\ checkpoint_every = 0
    /\ start_index = 0
    /\ needs_header = TRUE
    /\ barcode_to_image = EmptyDict
    /\ processed_count = 0
    /\ pending_batch = <<>>
    /\ idx = 0
    /\ runs = 0
    /\ queryCount = [k \in Keys |-> 0]
    /\ produced = <<>>
    /\ written = <<>>
    /\ commits = <<>>
    /\ lastRun = NoRun
    /\ prevRun = NoRun

InitRun ==
    /\ InitRunCore
    /\ harness = IdleHarness
    /\ env = GoodEnv
    /\ scraper = IdleScraper
    /\ call = IdleCall

\* checkpoint_every of a run: any value, or the one fixed for all runs
AnyEvery == [on |-> FALSE, every |-> 0]

\* any value from -1 on (a negative value is accepted by the command line)
SignedEvery == [on |-> FALSE, every |-> -1]

\* the values a run may get: the fixed one, or any from fixed_every.every on
EveryChoices ==
    IF fixed_every.on THEN { fixed_every.every } ELSE fixed_every.every .. MaxBatch

\* The output directory holds neither file before the first run.
Init ==
    /\ pipeline \in Pipelines
    /\ rows \in SeqsUpTo(RawBarcodes, MaxRows)
    /\ outFile = NoFile
    /\ ckptFile = CkptMissing
    /\ outAtStart = NoFile
    /\ ckptAtStart = CkptMissing
    /\ fixed_every = AnyEvery
    /\ InitRun

\* The same, for runs that all get the same arguments but for resume.
InitSame ==
    /\ pipeline \in Pipelines
    /\ rows \in SeqsUpTo(RawBarcodes, MaxRows)
    /\ outFile = NoFile
    /\ ckptFile = CkptMissing
    /\ outAtStart = NoFile
    /\ ckptAtStart = CkptMissing
    /\ fixed_every \in { [on |-> TRUE, every |-> e] : e \in CheckpointEveryValues }
    /\ InitRun

\* --------------------------------------------------------------- actions
\* variant: the output directory is made before the column is looked for
StartOrderDirFirst == << "makedirs", "check_column" >>

\* "if barcode_col not in fieldnames: raise ValueError" comes before
\* os.makedirs(out_dir_final, exist_ok=True)
StartOrder == << "check_column", "makedirs" >>

\* whether os.makedirs is reached by a run
MakedirsReached(has_column) == has_column \/ StartOrder[1] = "makedirs"

\* process_csv / enrich_csv up to the loop: read the input, load the
\* checkpoint, decide whether the header has to be written.
StartRun ==
    /\ pc \in {"idle", "done", "crashed", "error", "load_error", "config_error"}
    /\ runs < MaxRuns
    /\ \E res \in BOOLEAN, every \in EveryChoices :
         LET ld == IF env.has_column THEN LoadCheckpoint(res, ckptFile) ELSE Loaded(0)
         IN  /\ resume' = res
             /\ checkpoint_every' = every
             /\ start_index' = ld.start_index
             /\ processed_count' = ld.start_index
             /\ idx' = ld.start_index
             /\ needs_header' = IF env.has_column THEN HeaderNeeded(res, outFile) ELSE TRUE
             /\ pc' = IF ~env.has_column THEN "config_error"
                      ELSE IF ld.raised THEN "load_error" ELSE "loop"
    /\ env' = [env EXCEPT !.dir_at_start = env.out_dir,
                          !.out_dir = @ \/ MakedirsReached(env.has_column)]
    /\ barcode_to_image' = EmptyDict
    /\ pending_batch' = <<>>
    /\ phase' = "periodic"
    /\ runs' = runs + 1
    /\ queryCount' = [k \in Keys |-> 0]
    /\ produced' = <<>>
    /\ written' = <<>>
    /\ commits' = <<>>
    /\ outAtStart' = outFile
    /\ ckptAtStart' = ckptFile
    /\ prevRun' = lastRun
    /\ UNCHANGED << scraper, call, harness, pipeline, rows, outFile, ckptFile,
                    fixed_every, lastRun >>

\* The end of the loop body for the row idx with result columns res:
\* pending_batch.append(new_row), processed_count += 1, the commit test.
RowDone(res) ==
    /\ pending_batch' = Append(pending_batch, RowLine(idx, res))
    /\ produced' = Append(produced, RowLine(idx, res))
    /\ processed_count' = processed_count + 1
    /\ idx' = idx + 1
    /\ IF CommitDue(processed_count + 1, checkpoint_every)
       THEN pc' = OpenPc(CommitOrder[1]) /\ phase' = "periodic"
       ELSE pc' = "loop" /\ phase' = phase

\* One iteration of the loop body up to the commit test.
ProcessRow ==
    /\ pc = "loop"
    /\ idx < total
    /\ IndexOk(idx)
    /\ LET raw  == RowAt(idx)
           norm == normalize_barcode(raw)
           after(res) == RowDone(res)
       IN  \/ /\ pipeline = "process_csv"
              /\ IF norm # <<>>
                 THEN IF CacheMiss(norm, barcode_to_image)
                      THEN \E r \in FindResults :
                             /\ barcode_to_image' = (norm :> r) @@ barcode_to_image
                             /\ queryCount' = [queryCount EXCEPT ![norm] = @ + 1]
                             /\ after(<< OrEmpty(r[1]) >>)
                      ELSE /\ UNCHANGED << barcode_to_image, queryCount >>
                           /\ after(<< OrEmpty(barcode_to_image[norm][1]) >>)
                 ELSE /\ UNCHANGED << barcode_to_image, queryCount >>
                      /\ after(<< "" >>)
           \/ /\ pipeline = "enrich_csv"
              /\ UNCHANGED barcode_to_image
              /\ LET b == normalize_barcode(norm)
                 IN  IF b = <<>>
                     THEN /\ UNCHANGED queryCount
                          /\ after(<< "", "", "" >>)
                     ELSE \E urls \in SiteResults :
                            /\ queryCount' = [queryCount EXCEPT ![b] = @ + 1]
                            /\ after(<< FirstOrEmpty(urls.go_upc),
                                        FirstOrEmpty(urls.barcode_lookup),
                                        OrEmpty(urls.go_upc_description) >>)
    /\ UNCHANGED << env, scraper, call, harness, pipeline, rows, outFile, ckptFile, resume,
                    checkpoint_every, start_index, needs_header, runs,
                    fixed_every, written, commits, outAtStart, ckptAtStart,
                    lastRun, prevRun >>

\* End of the loop: "if pending_batch:" flush, else return.
LoopExit ==
    /\ pc = "loop"
    /\ idx >= total
    /\ IF FlushDue(pending_batch)
       THEN /\ pc' = OpenPc(CommitOrder[1])
            /\ phase' = "final"
            /\ UNCHANGED lastRun
       ELSE /\ pc' = "done"
            /\ phase' = phase
            /\ lastRun' = RunRecord("completed", commits)
    /\ UNCHANGED << env, scraper, call, harness, pipeline, rows, outFile, ckptFile, resume,
                    checkpoint_every, start_index, needs_header,
                    barcode_to_image, processed_count, pending_batch, idx,
                    runs, fixed_every, produced, queryCount, written, commits,
                    outAtStart, ckptAtStart, prevRun >>

\* append_rows: open(progress_csv, mode); "w" creates or truncates the file,
\* "a" creates it when missing and keeps its content otherwise.
AppendOpen ==
    /\ pc = "append_open"
    /\ outFile' = IF AppendMode(needs_header) = "w"
                  THEN [exists |-> TRUE, lines |-> <<>>]
                  ELSE [exists |-> TRUE, lines |-> outFile.lines]
    /\ pc' = "append_write"
    /\ UNCHANGED << env, scraper, call, harness, pipeline, rows, ckptFile, phase, resume, checkpoint_every,
                    start_index, needs_header, barcode_to_image,
                    processed_count, pending_batch, idx, runs, fixed_every,
                    produced, queryCount, written, commits, outAtStart,
                    ckptAtStart, lastRun, prevRun >>

\* append_rows after the open: writer.writeheader() when needs_header, one
\* writer.writerow(r) per row of the batch, close.  The writes go to the
\* buffer of the file object and reach the file when it is closed.
BatchLines(nh, batch) ==
    (IF nh THEN << HeaderLine >> ELSE <<>>) \o [i \in 1 .. Len(batch) |-> FileLine(batch[i])]

AppendWrite ==
    /\ pc = "append_write"
    /\ outFile' = [outFile EXCEPT !.lines = @ \o BatchLines(needs_header, pending_batch)]
    /\ needs_header' = FALSE
    /\ written' = written \o [i \in 1 .. Len(pending_batch) |-> pending_batch[i].idx]
    /\ pending_batch' = AfterAppend(phase, pending_batch)
    /\ pc' = AfterOp("append", phase)
    /\ lastRun' = IF AfterOp("append", phase) = "done"
                  THEN RunRecord("completed", commits) ELSE lastRun
    /\ UNCHANGED << env, scraper, call, harness, pipeline, rows, ckptFile, phase, resume, checkpoint_every,
                    start_index, barcode_to_image, processed_count, idx, runs,
                    fixed_every, produced, queryCount, commits, outAtStart,
                    ckptAtStart, prevRun >>

\* open(ckpt_path, "w"): the checkpoint file is created or truncated.
CkptOpen ==
    /\ pc = "ckpt_open"
    /\ ckptFile' = CkptEmpty
    /\ pc' = "ckpt_write"
    /\ UNCHANGED << env, scraper, call, harness, pipeline, rows, outFile, phase, resume, checkpoint_every,
                    start_index, needs_header, barcode_to_image,
                    processed_count, pending_batch, idx, runs, fixed_every,
                    produced, queryCount, written, commits, outAtStart,
                    ckptAtStart, lastRun, prevRun >>

\* json.dump({"processed_count": processed_count}, cf) and close.
CkptWrite ==
    /\ pc = "ckpt_write"
    /\ ckptFile' = CkptDump(processed_count)
    /\ commits' = Append(commits, CkptDump(processed_count).v)
    /\ pc' = AfterOp("ckpt", phase)
    /\ lastRun' = IF AfterOp("ckpt", phase) = "done"
                  THEN RunRecord("completed", Append(commits, CkptDump(processed_count).v))
                  ELSE lastRun
    /\ UNCHANGED << env, scraper, call, harness, pipeline, rows, outFile, phase, resume, checkpoint_every,
                    start_index, needs_header, barcode_to_image,
                    processed_count, pending_batch, idx, runs, fixed_every,
                    produced, queryCount, written, outAtStart, ckptAtStart,
                    prevRun >>

\* The process is killed between two file operations: the files stay as
\* they are, the memory of the run is lost.
Crash ==
    /\ pc \in RunningPcs
    /\ pc' = "crashed"
    /\ lastRun' = RunRecord("crashed", commits)
    /\ phase' = "periodic"
    /\ resume' = FALSE
    /\ checkpoint_every' = 0
    /\ start_index' = 0
    /\ needs_header' = TRUE
    /\ barcode_to_image' = EmptyDict
    /\ processed_count' = 0
    /\ pending_batch' = <<>>
    /\ idx' = 0
    /\ queryCount' = [k \in Keys |-> 0]
    /\ produced' = <<>>
    /\ written' = <<>>
    /\ commits' = <<>>
    /\ outAtStart' = NoFile
    /\ ckptAtStart' = CkptMissing
    /\ UNCHANGED << env, scraper, call, harness, pipeline, rows, outFile, ckptFile, runs, fixed_every,
                    prevRun >>

Next ==
    \/ StartRun
    \/ ProcessRow
    \/ LoopExit
    \/ AppendOpen
    \/ AppendWrite
    \/ CkptOpen
    \/ CkptWrite
    \/ Crash

Spec == Init /\ [][Next]_vars

SpecSame == InitSame /\ [][Next]_vars

\* ---------------------------------------- runs on a checkpoint left behind
\* row = rows[idx] raises IndexError when a negative start_index lies before
\* the first row; the exception ends the run.
RowIndexError ==
    /\ pc = "loop"
    /\ idx < total
    /\ ~IndexOk(idx)
    /\ pc' = "error"
    /\ lastRun' = RunRecord("error", commits)
    /\ UNCHANGED << env, scraper, call, harness, pipeline, rows, outFile, ckptFile, phase, resume,
                    checkpoint_every, start_index, needs_header,
                    barcode_to_image, processed_count, pending_batch, idx,
                    runs, fixed_every, produced, queryCount, written, commits,
                    outAtStart, ckptAtStart, prevRun >>

\* Checkpoint files that are not the product of a commit: no file, a file
\* without read permission, an empty file, text that is not JSON, a JSON
\* value that is not an object, and objects whose processed_count is
\* missing, null, a string or a number.
CorruptCkpts ==
    { CkptMissing,
      CkptFile("unreadable", "absent", 0, <<>>, FALSE),
      CkptEmpty,
      CkptFile("invalid_json", "absent", 0, <<>>, FALSE),
      CkptFile("not_object", "absent", 0, <<>>, FALSE),
      CkptFile("object", "null", 0, <<>>, FALSE),
      CkptFile("object", "str", 0, << "a" >>, FALSE),
      CkptFile("object", "str", 0, << "-" >>, TRUE),
      CkptFile("object", "str", 0, <<>>, FALSE) }

ValidCkpts ==
    { CkptFile("object", "absent", 0, <<>>, TRUE),
      CkptFile("object", "int", 1, <<>>, FALSE),
      CkptFile("object", "int", 1, <<>>, TRUE),
      CkptFile("object", "int", -1, <<>>, FALSE),
      CkptFile("object", "str", 0, << "2" >>, FALSE),
      CkptFile("object", "str", 0, << "-", "1" >>, TRUE) }

\* The last of the runs finds an arbitrary checkpoint file.
InitCkpt ==
    /\ pipeline \in Pipelines
    /\ rows \in SeqsUpTo(RawBarcodes, MaxRows)
    /\ outFile = NoFile
    /\ ckptFile \in CorruptCkpts \cup ValidCkpts
    /\ outAtStart = NoFile
    /\ ckptAtStart = CkptMissing
    /\ pc = "idle"
    /\ phase = "periodic"
    /\ resume = FALSE
    /\ checkpoint_every = 0
    /\ start_index = 0
    /\ needs_header = TRUE
    /\ barcode_to_image = EmptyDict
    /\ processed_count = 0
    /\ pending_batch = <<>>
    /\ idx = 0
    /\ runs = MaxRuns - 1
    /\ fixed_every = AnyEvery
    /\ queryCount = [k \in Keys |-> 0]
    /\ produced = <<>>
    /\ written = <<>>
    /\ commits = <<>>
    /\ lastRun = NoRun
    /\ prevRun = NoRun
    /\ harness = IdleHarness
    /\ env = GoodEnv
    /\ scraper = IdleScraper
    /\ call = IdleCall

NextCkpt ==
    \/ StartRun
    \/ ProcessRow
    \/ LoopExit
    \/ AppendOpen
    \/ AppendWrite
    \/ CkptOpen
    \/ CkptWrite
    \/ Crash
    \/ RowIndexError

SpecCkpt == InitCkpt /\ [][NextCkpt]_vars


\* ------------------------------------------- runs with any commit interval
\* Inputs of up to MaxRows + 1 rows, so that a commit interval can be a
\* divisor of total, a smaller non-divisor, larger than total, zero or
\* negative, and a resumed run can start between two multiples of it.
BatchBarcodes == { <<"1">>, <<"-">> }

InitBatch ==
    /\ pipeline \in Pipelines
    /\ rows \in SeqsUpTo(BatchBarcodes, MaxRows + 1)
    /\ outFile = NoFile
    /\ ckptFile = CkptMissing
    /\ outAtStart = NoFile
    /\ ckptAtStart = CkptMissing
    /\ fixed_every = SignedEvery
    /\ InitRun

SpecBatch == InitBatch /\ [][Next]_vars

\* ------------------------------------------------- one call of a harness
coreVars ==
    << pipeline, rows, outFile, ckptFile, pc, phase, resume, checkpoint_every,
       start_index, needs_header, barcode_to_image, processed_count,
       pending_batch, idx, runs, fixed_every, queryCount, produced, written,
       commits, outAtStart, ckptAtStart, lastRun, prevRun, env >>

pipelineVars == << coreVars, scraper, call >>

CurrentSource == SourcesOf(harness.fn)[harness.src]

\* bookkeeping of one attempt on the current source (yielded: the sources
\* an attempt on which gave a usable result)
Attempted(h, outcome) ==
    [h EXCEPT !.fetches[CurrentSource] = @ + 1,
              !.last = outcome,
              !.yielded = IF outcome = "found" THEN @ \cup { CurrentSource } ELSE @,
              !.retried_not_found = @ \/ (h.attempt > 0 /\ h.last = "not_found")]

\* The harness is called with retries = R for one barcode.
HarnessCall ==
    /\ harness.pc = "idle"
    /\ \E fn \in HarnessFns, R \in 0 .. MaxRetries :
         harness' = Enter([IdleHarness EXCEPT !.fn = fn, !.retries = R], 1, 0)
    /\ UNCHANGED pipelineVars

\* find_image_url_zero_cost: product = fetch_openfacts_product(barcode, host);
\* "if product:" img = pick_best_image_url(product); "if img:" return.
FetchOpenFacts ==
    /\ harness.pc = "fetch"
    /\ harness.fn = "find_image_url_zero_cost"
    /\ \E resp \in OpenFactsResponses :
         LET product == fetch_openfacts_product(resp)
             h == Attempted(harness, OpenFactsOutcome(resp))
             img == IF ~product.is_none /\ Truthy(product.value)
                    THEN pick_best_image_url(product.value) ELSE None
         IN  harness' =
               IF Escapes(resp) THEN [h EXCEPT !.pc = "raised"]
               ELSE IF img # None /\ img # ""
               THEN [h EXCEPT !.pc = "returned",
                              !.result = [NoResult EXCEPT !.img = img,
                                                          !.source = CurrentSource]]
               ELSE [h EXCEPT !.pc = "sleep"]
    /\ UNCHANGED pipelineVars

\* lookup_go_upc / lookup_barcode_lookup: html = _get(url); "if html:"
\* extract; return when something was found.
FetchPage ==
    /\ harness.pc = "fetch"
    /\ harness.fn \in {"lookup_go_upc", "lookup_barcode_lookup"}
    /\ \E resp \in PageResponses :
         LET hit == PageHit(harness.fn, resp)
             h == Attempted(harness, IF hit THEN "found" ELSE OutcomeOf(resp))
         IN  harness' =
               IF hit
               THEN [h EXCEPT !.pc = "returned",
                              !.result = [NoResult EXCEPT
                                  !.imgs = resp.imgs,
                                  !.desc = IF h.fn = "lookup_go_upc" THEN resp.desc ELSE None]]
               ELSE [h EXCEPT !.pc = "sleep"]
    /\ UNCHANGED pipelineVars

\* time.sleep(delay) at the end of the loop body, then the next iteration.
HarnessSleep ==
    /\ harness.pc = "sleep"
    /\ LET h == [harness EXCEPT !.sleeps[CurrentSource] = @ + 1]
           n == Attempts(harness.fn, harness.retries)
       IN  harness' = Enter(h, harness.src, AfterFailure(harness.attempt, n, harness.last))
    /\ UNCHANGED pipelineVars

InitRetry ==
    /\ pipeline = "process_csv"
    /\ rows = <<>>
    /\ outFile = NoFile
    /\ ckptFile = CkptMissing
    /\ outAtStart = NoFile
    /\ ckptAtStart = CkptMissing
    /\ fixed_every = AnyEvery
    /\ InitRun

NextRetry ==
    \/ HarnessCall
    \/ FetchOpenFacts
    \/ FetchPage
    \/ HarnessSleep

SpecRetry == InitRetry /\ [][NextRetry]_vars

\* ------------------------------------- process_csv with the harness inside
\* process_csv where every query is the run of find_image_url_zero_cost,
\* attempt by attempt; retries is the argument of the run.
NeedsQuery ==
    /\ pipeline = "process_csv"
    /\ pc = "loop"
    /\ idx < total
    /\ IndexOk(idx)
    /\ normalize_barcode(RowAt(idx)) # <<>>
    /\ CacheMiss(normalize_barcode(RowAt(idx)), barcode_to_image)

HarnessBusy == harness.pc \in {"fetch", "sleep", "returned", "raised"}

\* img, source = find_image_url_zero_cost(norm, ..., retries=retries, ...)
QueryStart ==
    /\ NeedsQuery
    /\ ~HarnessBusy
    /\ harness' = Enter([IdleHarness EXCEPT !.fn = "find_image_url_zero_cost",
                                            !.barcode = normalize_barcode(RowAt(idx)),
                                            !.retries = harness.retries], 1, 0)
    /\ UNCHANGED pipelineVars

\* The call returns: barcode_to_image[norm] = (img, source) and the rest of
\* the loop body; an exception that left the call ends the run.
QueryEnd ==
    /\ NeedsQuery
    /\ harness.pc \in {"returned", "raised"}
    /\ IF harness.pc = "raised"
       THEN /\ pc' = "error"
            /\ lastRun' = RunRecord("error", commits)
            /\ UNCHANGED << harness, barcode_to_image, queryCount, pending_batch,
                            produced, processed_count, idx, phase >>
       ELSE /\ barcode_to_image' =
                 (harness.barcode :> << harness.result.img, harness.result.source >>)
                    @@ barcode_to_image
            /\ queryCount' = [queryCount EXCEPT ![harness.barcode] = @ + 1]
            /\ RowDone(<< OrEmpty(harness.result.img) >>)
            /\ harness' = [harness EXCEPT !.pc = "consumed"]
            /\ UNCHANGED lastRun
    /\ UNCHANGED << pipeline, rows, outFile, ckptFile, resume, checkpoint_every,
                    start_index, needs_header, runs, fixed_every, written,
                    commits, outAtStart, ckptAtStart, prevRun, env, scraper,
                    call >>

\* a row whose barcode is empty or already in barcode_to_image
CachedRow == ~NeedsQuery /\ ProcessRow

InitAdapter ==
    /\ pipeline = "process_csv"
    /\ rows \in SeqsUpTo(RawBarcodes, MaxRows)
    /\ outFile = NoFile
    /\ ckptFile = CkptMissing
    /\ outAtStart = NoFile
    /\ ckptAtStart = CkptMissing
    /\ fixed_every \in { [on |-> TRUE, every |-> e] : e \in 0 .. 1 }
    /\ pc = "idle"
    /\ phase = "periodic"
    /\ resume = FALSE
    /\ checkpoint_every = 0
    /\ start_index = 0
    /\ needs_header = TRUE
    /\ barcode_to_image = EmptyDict
    /\ processed_count = 0
    /\ pending_batch = <<>>
    /\ idx = 0
    /\ runs = MaxRuns - 1
    /\ queryCount = [k \in Keys |-> 0]
    /\ produced = <<>>
    /\ written = <<>>
    /\ commits = <<>>
    /\ lastRun = NoRun
    /\ prevRun = NoRun
    /\ harness \in { [IdleHarness EXCEPT !.retries = R] : R \in 0 .. MaxRetries }
    /\ env = GoodEnv
    /\ scraper = IdleScraper
    /\ call = IdleCall

NextAdapter ==
    \/ StartRun
    \/ QueryStart
    \/ FetchOpenFacts
    \/ HarnessSleep
    \/ QueryEnd
    \/ CachedRow
    \/ LoopExit
    \/ AppendOpen
    \/ AppendWrite
    \/ CkptOpen
    \/ CkptWrite

SpecAdapter == InitAdapter /\ [][NextAdapter]_vars

\* -------------------------------------- runs on an input of any header
\* One run of either pipeline on an input with or without the barcode
\* column, in a directory that may already exist and may already hold the
\* output file and the checkpoint file of an earlier run.
EarlierOutput == [exists |-> TRUE, lines |-> << HeaderLine >>]

InitConfig ==
    /\ pipeline \in Pipelines
    /\ rows \in SeqsUpTo(RawBarcodes, MaxRows)
    /\ env \in { Env(col, dir) : col \in BOOLEAN, dir \in BOOLEAN }
    /\ outFile \in IF env.out_dir THEN { NoFile, EarlierOutput } ELSE { NoFile }
    /\ ckptFile \in IF env.out_dir THEN { CkptMissing, CkptDump(0) } ELSE { CkptMissing }
    /\ outAtStart = outFile
    /\ ckptAtStart = ckptFile
    /\ fixed_every = [on |-> TRUE, every |-> 1]
    /\ pc = "idle"
    /\ phase = "periodic"
    /\ resume = FALSE
    /\ checkpoint_every = 0
    /\ start_index = 0
    /\ needs_header = TRUE
    /\ barcode_to_image = EmptyDict
    /\ processed_count = 0
    /\ pending_batch = <<>>
    /\ idx = 0
    /\ runs = MaxRuns - 1
    /\ queryCount = [k \in Keys |-> 0]
    /\ produced = <<>>
    /\ written = <<>>
    /\ commits = <<>>
    /\ lastRun = NoRun
    /\ prevRun = NoRun
    /\ harness = IdleHarness
    /\ scraper = IdleScraper
    /\ call = IdleCall

SpecConfig == InitConfig /\ [][Next]_vars

\* ------------------------------------------- ImageScraper.process_csv
\* scraper.downloaded_count, scraper.failed_count: the counters of the
\* object, zero when it is made; scraper.searched: the products
\* search_product_images was called for in this run; scraper.saved: the indexes at which the periodic save was
\* made; scraper.lost_update: a checkpoint write of this run has failed.
ScraperVolatile(s) ==
    [s EXCEPT !.products = <<>>, !.i = 1, !.start_index = 1, !.sphase = "periodic"]

InitScraper ==
    /\ pipeline = "process_csv"
    /\ rows = <<>>
    /\ outFile = NoFile
    /\ ckptFile = CkptMissing
    /\ outAtStart = NoFile
    /\ ckptAtStart = CkptMissing
    /\ fixed_every = AnyEvery
    /\ InitRunCore
    /\ harness = IdleHarness
    /\ env = GoodEnv
    /\ call = IdleCall
    /\ scraper \in { [IdleScraper EXCEPT !.cfg = c, !.input = inp] :
                        c \in ScraperConfigs,
                        inp \in SeqsUpTo(InputSrcs, MaxRows + 1) }

\* process_csv up to the loop: the products are read from the input file,
\* the resume position comes from the checkpoint.
ScraperStart ==
    /\ scraper.pc \in {"idle", "done", "crashed", "error"}
    /\ scraper.runs < MaxRuns
    /\ \E res \in BOOLEAN :
         LET cfg == [scraper.cfg EXCEPT !.resume = res]
         IN  scraper' = [scraper EXCEPT
                 !.cfg = cfg,
                 !.products = scraper.input,
                 !.start_index = ResumePosition(cfg, scraper.ckpt),
                 !.i = 1,
                 !.pc = "loop",
                 !.sphase = "periodic",
                 !.runs = @ + 1,
                 !.searched = {},
                 !.saved = {},
                 !.out_at_start = scraper.out,
                 !.lost_update = FALSE,
                 !.downloaded_count = 0,
                 !.failed_count = 0]
    /\ UNCHANGED << coreVars, harness, call >>

InLoop == scraper.pc = "loop" /\ scraper.i <= Len(scraper.products)

\* "if i < start_index: continue"
ScraperSkip ==
    /\ InLoop
    /\ scraper.i < scraper.start_index
    /\ scraper' = [scraper EXCEPT !.i = @ + 1]
    /\ UNCHANGED << coreVars, harness, call >>

\* "Product already has image, skipping...": continue
AfterHasImage(s) == [s EXCEPT !.i = @ + 1]

ScraperHasImage ==
    /\ InLoop
    /\ scraper.i >= scraper.start_index
    /\ HasImage(scraper.products[scraper.i])
    /\ scraper' = AfterHasImage(scraper)
    /\ UNCHANGED << coreVars, harness, call >>

\* The search for a product without image, and the test
\* "if i % save_interval == 0" (ZeroDivisionError when the interval is 0).
ScraperSearch ==
    /\ InLoop
    /\ scraper.i >= scraper.start_index
    /\ ~HasImage(scraper.products[scraper.i])
    /\ \E found \in SearchOutcomes :
         LET s == [scraper EXCEPT
                      !.products[scraper.i] = found,
                      !.searched = @ \cup { scraper.i },
                      !.downloaded_count = IF found # "" THEN @ + 1 ELSE @,
                      !.failed_count = IF found = "" THEN @ + 1 ELSE @]
             n == scraper.cfg.every_n_products
         IN  scraper' =
               IF n = 0 THEN [s EXCEPT !.pc = "error"]
               ELSE IF SaveDue(s.i, n)
                    THEN [s EXCEPT !.pc = "save_open", !.sphase = "periodic",
                                   !.saved = @ \cup { s.i }]
                    ELSE [s EXCEPT !.i = @ + 1]
    /\ UNCHANGED << coreVars, harness, call >>

\* the end of the loop: "Save final results"
ScraperLoopExit ==
    /\ scraper.pc = "loop"
    /\ scraper.i > Len(scraper.products)
    /\ scraper' = [scraper EXCEPT !.pc = "save_open", !.sphase = "final"]
    /\ UNCHANGED << coreVars, harness, call >>

AfterSave(ph) == IF ph = "periodic" THEN "ckpt" ELSE "clear"

\* save_progress: nothing for no products, else open(output_file, 'w')
SaveProgressOpen ==
    /\ scraper.pc = "save_open"
    /\ scraper' =
         IF scraper.products = <<>>
         THEN [scraper EXCEPT !.pc = AfterSave(scraper.sphase)]
         ELSE [scraper EXCEPT !.out = [exists |-> TRUE, rows |-> <<>>],
                              !.pc = "save_write"]
    /\ UNCHANGED << coreVars, harness, call >>

\* writer.writeheader(); writer.writerows(products)
SaveProgressWrite ==
    /\ scraper.pc = "save_write"
    /\ scraper' = [scraper EXCEPT !.out = [exists |-> TRUE, rows |-> scraper.products],
                                  !.pc = AfterSave(scraper.sphase)]
    /\ UNCHANGED << coreVars, harness, call >>

\* the ways the write of the checkpoint file can end
CkptWriteOutcomes == {"ok", "open_fails", "dump_fails"}

\* "except Exception as e: logger.warning(...)": the loop goes on
AfterCkptFailure(s) == [s EXCEPT !.pc = "loop", !.i = @ + 1]

\* save_checkpoint({..., 'last_index': i, ...}) after the periodic save
SaveCheckpoint ==
    /\ scraper.pc = "ckpt"
    /\ IF ~scraper.cfg.enabled
       THEN scraper' = [scraper EXCEPT !.pc = "loop", !.i = @ + 1]
       ELSE \E o \in CkptWriteOutcomes :
              scraper' =
                IF o = "ok"
                THEN [scraper EXCEPT !.ckpt = ScraperCkpt("object", scraper.i),
                                     !.pc = "loop", !.i = @ + 1]
                ELSE AfterCkptFailure(
                       [scraper EXCEPT
                          !.ckpt = IF o = "dump_fails" THEN ScraperCkpt("empty", 0) ELSE @,
                          !.lost_update = TRUE])
    /\ UNCHANGED << coreVars, harness, call >>

\* clear_checkpoint: the file is removed if it exists; a failure of
\* os.remove is logged only
ClearCheckpoint ==
    /\ scraper.pc = "clear"
    /\ \E removed \in BOOLEAN :
         scraper' = [scraper EXCEPT
                        !.ckpt = IF removed THEN NoScraperCkpt ELSE @,
                        !.pc = "done"]
    /\ UNCHANGED << coreVars, harness, call >>

\* the process is killed
ScraperCrash ==
    /\ scraper.pc \in {"loop", "save_open", "save_write", "ckpt", "clear"}
    /\ scraper' = ScraperVolatile([scraper EXCEPT !.pc = "crashed"])
    /\ UNCHANGED << coreVars, harness, call >>

NextScraper ==
    \/ ScraperStart
    \/ ScraperSkip
    \/ ScraperHasImage
    \/ ScraperSearch
    \/ ScraperLoopExit
    \/ SaveProgressOpen
    \/ SaveProgressWrite
    \/ SaveCheckpoint
    \/ ClearCheckpoint
    \/ ScraperCrash

SpecScraper == InitScraper /\ [][NextScraper]_vars

\* ------------------------------------------------------- single functions
\* One function applied to one argument: call.arg is the argument,
\* call.result what the function returned.
InitCalls ==
    /\ pipeline = "process_csv"
    /\ rows = <<>>
    /\ outFile = NoFile
    /\ ckptFile = CkptMissing
    /\ outAtStart = NoFile
    /\ ckptAtStart = CkptMissing
    /\ fixed_every = AnyEvery
    /\ InitRun

CallOf(fn, arg) == [fn |-> fn, pc |-> "called", arg |-> arg, result |-> <<>>]

Returned(c, res) == [c EXCEPT !.pc = "returned", !.result = res]

\* the characters a raw value is made of here
RawChars == {"1", "2", "-", "sup2"}

\* a raw value: None or a string
RawNone == [is_none |-> TRUE, chars |-> <<>>]

RawStr(cs) == [is_none |-> FALSE, chars |-> cs]

RawValues == { RawNone } \cup { RawStr(cs) : cs \in SeqsUpTo(RawChars, MaxChars) }

\* (raw or "")
OrEmptyStr(raw) == IF raw.is_none THEN <<>> ELSE raw.chars

NormalizeCall ==
    /\ call.pc = "idle"
    /\ \E raw \in RawValues : call' = CallOf("normalize_barcode", raw)
    /\ UNCHANGED << coreVars, harness, scraper >>

\* both copies applied to the argument
NormalizeReturn ==
    /\ call.pc = "called"
    /\ call.fn = "normalize_barcode"
    /\ call' = Returned(call,
                 [finder  |-> normalize_barcode(OrEmptyStr(call.arg)),
                  fetcher |-> fetcher_normalize_barcode(OrEmptyStr(call.arg))])
    /\ UNCHANGED << coreVars, harness, scraper >>

NextNormalize == NormalizeCall \/ NormalizeReturn

SpecNormalize == InitCalls /\ [][NextNormalize]_vars

\* process_csv: the header and one row of the output.  The input has the
\* barcode column and up to two more, each at most once.
Columns == {"barcode", "name", "image_url"}

CellValues == {"", "x"}

Headers ==
    { h \in SeqsUpTo(Columns, Cardinality(Columns)) :
        /\ \E i \in 1 .. Len(h) : h[i] = "barcode"
        /\ \A i \in 1 .. Len(h), j \in 1 .. Len(h) : h[i] = h[j] => i = j }

ColumnsOf(h) == { h[i] : i \in 1 .. Len(h) }

\* the rows csv.DictReader gives for the header h
RowsOfHeader(h) == [ColumnsOf(h) -> CellValues]

\* out_fieldnames = list(fieldnames);
\* if "image_url" not in out_fieldnames: out_fieldnames.append("image_url")
out_fieldnames(fieldnames) ==
    IF "image_url" \in ColumnsOf(fieldnames)
    THEN fieldnames
    ELSE Append(fieldnames, "image_url")

\* new_row = dict(row); new_row["image_url"] = img_url or ""
new_row(row, img_url) ==
    [c \in DOMAIN row \cup {"image_url"} |->
        IF c = "image_url" THEN OrEmpty(img_url) ELSE row[c]]

\* csv.DictWriter(f, fieldnames=out_fieldnames).writerow(r)
writerow(fields, r) == [i \in 1 .. Len(fields) |-> r[fields[i]]]

MergeCall ==
    /\ call.pc = "idle"
    /\ \E h \in Headers :
         \E row \in RowsOfHeader(h), img \in {None, "u1"} :
            call' = CallOf("process_csv",
                           [fieldnames |-> h, row |-> row, img_url |-> img])
    /\ UNCHANGED << coreVars, harness, scraper >>

MergeReturn ==
    /\ call.pc = "called"
    /\ call.fn = "process_csv"
    /\ call' = Returned(call,
                 [header |-> out_fieldnames(call.arg.fieldnames),
                  line   |-> writerow(out_fieldnames(call.arg.fieldnames),
                                      new_row(call.arg.row, call.arg.img_url))])
    /\ UNCHANGED << coreVars, harness, scraper >>

NextMerge == MergeCall \/ MergeReturn

SpecMerge == InitCalls /\ [][NextMerge]_vars

\* ------------------------------------------------------ removal of doubles
\* parse_image_candidates.  A page is given by what the three loops meet, in
\* their order: the contents of the og:image metas, the src of the images
\* the selectors match, the src of the images whose URL holds the barcode.
RawSrcs == {"a", "b", " a ", ""}

\* "if content and content.strip(): candidates.append(content.strip())"
RECURSIVE Collected(_)
Collected(srcs) ==
    IF srcs = <<>> THEN <<>>
    ELSE IF Strip(Head(srcs)) # ""
         THEN << Strip(Head(srcs)) >> \o Collected(Tail(srcs))
         ELSE Collected(Tail(srcs))

Pages ==
    [metas : SeqsUpTo(RawSrcs, MaxCands), selected : SeqsUpTo(RawSrcs, MaxCands),
     with_barcode : SeqsUpTo(RawSrcs, 1)]

candidates(page) ==
    Collected(page.metas) \o Collected(page.selected) \o Collected(page.with_barcode)

InSeq(x, seq) == \E i \in 1 .. Len(seq) : seq[i] = x

\* "for url in candidates: if url not in seen: seen.add(url);
\* unique.append(url)", up to the n-th candidate
RECURSIVE UniqueTo(_, _)
UniqueTo(cands, n) ==
    IF n = 0 THEN <<>>
    ELSE LET before == UniqueTo(cands, n - 1)
         IN  IF InSeq(cands[n], before) THEN before ELSE Append(before, cands[n])

parse_image_candidates(page) == UniqueTo(candidates(page), Len(candidates(page)))

\* search_product_images from all_results on.  A result is its url (a
\* number), its place in all_results (seq) and its confidence in tenths.
TopN == 15

SearchResult(u, i, c) == [url |-> u, seq |-> i, confidence |-> c]

\* the urls is_high_resolution is true for
HighResUrls == {2}

is_high_resolution(u) == u \in HighResUrls

\* n results of n urls, the p-th of a higher confidence, followed by k
\* more results for the urls 1 .. k
AllResults(n, p, k) ==
    [i \in 1 .. n + k |->
        IF i <= n THEN SearchResult(i, i, IF i = p THEN 8 ELSE 5)
        ELSE SearchResult(i - n, i, 9)]

SearchInputs ==
    { AllResults(t[1], t[2], t[3]) :
        t \in { u \in (0 .. TopN + MaxExtra) \X (0 .. 3) \X (0 .. MaxCands) :
                   u[3] <= u[1] } }

\* "if self.is_high_resolution(result.url): result.confidence += 0.2"
Boosted(r) ==
    IF is_high_resolution(r.url) THEN [r EXCEPT !.confidence = @ + 2] ELSE r

\* variant: a later result for a url takes the place of the one kept
KeepLast(before, r) ==
    IF \E i \in 1 .. Len(before) : before[i].url = r.url
    THEN [i \in 1 .. Len(before) |->
             IF before[i].url = r.url THEN Boosted(r) ELSE before[i]]
    ELSE Append(before, Boosted(r))

\* "if result.url not in seen_urls: seen_urls.add(result.url); ...
\* unique_results.append(result)"
KeepFirst(before, r) ==
    IF \E i \in 1 .. Len(before) : before[i].url = r.url
    THEN before
    ELSE Append(before, Boosted(r))

\* "for result in all_results:", up to the n-th result
RECURSIVE UniqueResults(_, _)
UniqueResults(all, n) ==
    IF n = 0 THEN <<>> ELSE KeepFirst(UniqueResults(all, n - 1), all[n])

\* the order of key=lambda x: (x.confidence, self.is_high_resolution(x.url))
KeyGE(a, b) ==
    \/ a.confidence > b.confidence
    \/ /\ a.confidence = b.confidence
       /\ (is_high_resolution(a.url) \/ ~is_high_resolution(b.url))

\* x put into the sorted s behind the entries that do not come after it
InsertDesc(x, s) ==
    LET k == Cardinality({ i \in 1 .. Len(s) : KeyGE(s[i], x) })
    IN  SubSeq(s, 1, k) \o << x >> \o SubSeq(s, k + 1, Len(s))

\* unique_results.sort(key=..., reverse=True): stable, highest first
RECURSIVE SortTo(_, _)
SortTo(seq, n) ==
    IF n = 0 THEN <<>> ELSE InsertDesc(seq[n], SortTo(seq, n - 1))

\* unique_results[:15]
Top(seq) == SubSeq(seq, 1, IF Len(seq) < TopN THEN Len(seq) ELSE TopN)

search_product_images(all) ==
    LET unique == UniqueResults(all, Len(all))
    IN  Top(SortTo(unique, Len(unique)))

ParseCall ==
    /\ call.pc = "idle"
    /\ \E page \in Pages : call' = CallOf("parse_image_candidates", page)
    /\ UNCHANGED << coreVars, harness, scraper >>

ParseReturn ==
    /\ call.pc = "called"
    /\ call.fn = "parse_image_candidates"
    /\ call' = Returned(call, parse_image_candidates(call.arg))
    /\ UNCHANGED << coreVars, harness, scraper >>

SearchCall ==
    /\ call.pc = "idle"
    /\ \E all \in SearchInputs : call' = CallOf("search_product_images", all)
    /\ UNCHANGED << coreVars, harness, scraper >>

SearchReturn ==
    /\ call.pc = "called"
    /\ call.fn = "search_product_images"
    /\ call' = Returned(call, search_product_images(call.arg))
    /\ UNCHANGED << coreVars, harness, scraper >>

NextDedupe == ParseCall \/ ParseReturn \/ SearchCall \/ SearchReturn

SpecDedupe == InitCalls /\ [][NextDedupe]_vars

\* ------------------------------------------------- the URL of a product
\* The products pick_best_image_url is applied to: two of the preferred
\* keys, and selected_images with the sizes front/small and
\* ingredients/display.
FlatValues == { "u1", " u3 ", "  ", "<int>" }

FlatProducts ==
    { [k \in {} |-> None] }
      \cup { [image_url |-> v] : v \in FlatValues }
      \cup { [image_thumb_url |-> v] : v \in FlatValues }
      \cup [image_url : FlatValues, image_thumb_url : FlatValues]

ItemValues == { "u4", " u3 ", "  ", "<int>" }

Langs == { LangOrder[i] : i \in 1 .. Len(LangOrder) }

\* the dicts language -> value of at most MaxLangs keys, in every order of
\* insertion
LangDicts ==
    { items \in SeqsUpTo(Langs \X ItemValues, MaxLangs) :
        \A i \in 1 .. Len(items), j \in 1 .. Len(items) :
            items[i][1] = items[j][1] => i = j }

NotADict == [is_dict |-> FALSE, items |-> <<>>]

SizeDict(items) == [is_dict |-> TRUE, items |-> items]

SectionDict(sizes) == [is_dict |-> TRUE, sizes |-> sizes]

SelectedImages ==
    { [is_dict |-> FALSE, sections |-> <<>>] }
      \cup { [is_dict |-> TRUE,
              sections |-> [front |-> SectionDict([small |-> SizeDict(its)]),
                            ingredients |-> SectionDict([display |-> d])]] :
                its \in LangDicts,
                d \in { NotADict, SizeDict(<< >>), SizeDict(<< <<"en", "u5">> >>),
                        SizeDict(<< <<"en", "  ">> >>) } }

WithSelected(flat, sel) ==
    [k \in DOMAIN flat \cup {"selected_images"} |->
        IF k = "selected_images" THEN sel ELSE flat[k]]

Products ==
    FlatProducts \cup { WithSelected(f, sel) : f \in FlatProducts, sel \in SelectedImages }

\* find_image_url_zero_cost for one answer with the product, and the
\* image_url process_csv writes for it: "if product: img = pick_best_image_url
\* (product); if img: return img", new_row["image_url"] = img_url or ""
FoundImage(product) ==
    IF Truthy(product) /\ UsableUrl(pick_best_image_url(product))
    THEN pick_best_image_url(product)
    ELSE None

PickCall ==
    /\ call.pc = "idle"
    /\ \E product \in Products : call' = CallOf("pick_best_image_url", product)
    /\ UNCHANGED << coreVars, harness, scraper >>

PickReturn ==
    /\ call.pc = "called"
    /\ call.fn = "pick_best_image_url"
    /\ call' = Returned(call, [url |-> pick_best_image_url(call.arg),
                               image_url |-> OrEmpty(FoundImage(call.arg))])
    /\ UNCHANGED << coreVars, harness, scraper >>

NextUrls == PickCall \/ PickReturn \/ ParseCall \/ ParseReturn

SpecUrls == InitCalls /\ [][NextUrls]_vars

\* ------------------------------------------------ the configuration read
\* image_scraper.py, load_config and the lookups of search_product_images.
\* A dict of the configuration is a function of its keys.
SourceKeys ==
    {"google_images", "amazon", "bing_images", "unsplash", "manufacturer_websites"}

SettingKeys == {"max_results_per_source", "delay_between_requests"}

\* default_config of load_config: its sections search_sources and
\* search_settings (the members of search_settings that are read here)
default_config ==
    [search_sources |-> [k \in {"google_images", "bing_images", "amazon",
                                "manufacturer_websites"} |-> TRUE],
     search_settings |-> [k \in SettingKeys |-> "default"]]

\* The config file: absent, or a JSON object with or without each section.
NoConfigFile ==
    [exists |-> FALSE, has_sources |-> FALSE, sources |-> <<>>,
     has_settings |-> FALSE, settings |-> <<>>]

SourceDicts == UNION { [S -> BOOLEAN] : S \in SUBSET SourceKeys }

SettingDicts == UNION { [S -> {"given"}] : S \in SUBSET SettingKeys }

ConfigFiles ==
    { NoConfigFile }
      \cup { [exists |-> TRUE, has_sources |-> TRUE, sources |-> so,
              has_settings |-> TRUE, settings |-> se] :
                 so \in SourceDicts, se \in SettingDicts }
      \cup { [exists |-> TRUE, has_sources |-> TRUE, sources |-> so,
              has_settings |-> FALSE, settings |-> <<>>] : so \in SourceDicts }
      \cup { [exists |-> TRUE, has_sources |-> FALSE, sources |-> <<>>,
              has_settings |-> TRUE, settings |-> se] : se \in SettingDicts }
      \cup { [exists |-> TRUE, has_sources |-> FALSE, sources |-> <<>>,
              has_settings |-> FALSE, settings |-> <<>>] }

\* load_config: the defaults when there is no file; else the object of the
\* file, with the sections it lacks taken from the defaults ("for key, value
\* in default_config.items(): if key not in config: config[key] = value")
load_config(file) ==
    IF ~file.exists THEN default_config
    ELSE [search_sources |-> IF file.has_sources THEN file.sources
                             ELSE default_config.search_sources,
          search_settings |-> IF file.has_settings THEN file.settings
                              ELSE default_config.search_settings]

\* Title, Vendor and Variant SKU of a product: absent or empty, or a word
FieldValues == { "", "x" }

ProductData == [Title : FieldValues, Vendor : FieldValues, SKU : FieldValues]

\* The queries f"{title} {vendor}", f"{title} {sku}", title, f"{vendor}
\* {sku}" as the words they are made of; those that are blank after strip()
\* are dropped.
Queries(product) ==
    { q \in { << product.Title, product.Vendor >>, << product.Title, product.SKU >>,
              << product.Title >>, << product.Vendor, product.SKU >> } :
        \E n \in 1 .. Len(q) : q[n] # "" }

\* the order in which self.config['search_sources'][...] is read for a query
SourcesRead ==
    << "google_images", "amazon", "bing_images", "unsplash", "manufacturer_websites" >>

\* the members of search_settings read when the source is searched
SettingsRead(k) ==
    IF k \in {"google_images", "amazon", "bing_images"}
    THEN << "max_results_per_source", "delay_between_requests" >>
    ELSE << "delay_between_requests" >>

\* "if self.config['search_sources'][k]" ("... and vendor" for the
\* manufacturer's website)
Searched(config, k, vendor) ==
    config.search_sources[k] /\ (k = "manufacturer_websites" => vendor # "")

\* The first member of keys, from the n-th on, that d lacks; "ok" for none.
RECURSIVE FirstMissing(_, _, _)
FirstMissing(d, keys, n) ==
    IF n > Len(keys) THEN "ok"
    ELSE IF keys[n] \notin DOMAIN d THEN keys[n]
    ELSE FirstMissing(d, keys, n + 1)

\* The lookups made for one query, from the n-th source on: "ok", or the
\* key of the KeyError raised.
RECURSIVE QueryLookups(_, _, _)
QueryLookups(config, vendor, n) ==
    IF n > Len(SourcesRead) THEN "ok"
    ELSE LET k == SourcesRead[n]
         IN  IF k \notin DOMAIN config.search_sources THEN k
             ELSE IF Searched(config, k, vendor)
                     /\ FirstMissing(config.search_settings, SettingsRead(k), 1) # "ok"
             THEN FirstMissing(config.search_settings, SettingsRead(k), 1)
             ELSE QueryLookups(config, vendor, n + 1)

\* search_product_images as far as the configuration goes: "ok" when the
\* result list is returned, else the key of the KeyError that leaves it (the
\* first query raises what every query would).
ConfigLookups(config, product) ==
    IF Queries(product) = {} THEN "ok"
    ELSE QueryLookups(config, product.Vendor, 1)

LookupsCall ==
    /\ call.pc = "idle"
    /\ \E file \in ConfigFiles, product \in ProductData :
         call' = CallOf("config_lookups", [file |-> file, product |-> product])
    /\ UNCHANGED << coreVars, harness, scraper >>

\* self.config = self.load_config(config_file) in __init__, then
\* search_product_images(product) in the loop of process_csv, where nothing
\* catches a KeyError
LookupsReturn ==
    /\ call.pc = "called"
    /\ call.fn = "config_lookups"
    /\ call' = Returned(call, [raised |-> ConfigLookups(load_config(call.arg.file),
                                                       call.arg.product)])
    /\ UNCHANGED << coreVars, harness, scraper >>

NextLookups == LookupsCall \/ LookupsReturn

SpecLookups == InitCalls /\ [][NextLookups]_vars

\* ------------------------------------------------- runs that are not killed
\* One run of either pipeline in which every call of an adapter returns and
\* the process is not killed: the run goes on as long as it can.
InitLive ==
    /\ pipeline \in Pipelines
    /\ rows \in SeqsUpTo(BatchBarcodes, MaxRows)
    /\ outFile = NoFile
    /\ ckptFile = CkptMissing
    /\ outAtStart = NoFile
    /\ ckptAtStart = CkptMissing
    /\ fixed_every \in { [on |-> TRUE, every |-> e] : e \in -1 .. 1 }
    /\ pc = "idle"
    /\ phase = "periodic"
    /\ resume = FALSE
    /\ checkpoint_every = 0
    /\ start_index = 0
    /\ needs_header = TRUE
    /\ barcode_to_image = EmptyDict
    /\ processed_count = 0
    /\ pending_batch = <<>>
    /\ idx = 0
    /\ runs = MaxRuns - 1
    /\ queryCount = [k \in Keys |-> 0]
    /\ produced = <<>>
    /\ written = <<>>
    /\ commits = <<>>
    /\ lastRun = NoRun
    /\ prevRun = NoRun
    /\ harness \in { [IdleHarness EXCEPT !.retries = R] : R \in 0 .. MaxRetries }
    /\ env = GoodEnv
    /\ scraper = IdleScraper
    /\ call = IdleCall

SpecLive == InitLive /\ [][NextAdapter]_vars /\ WF_vars(NextAdapter)

\* ------------------------------------------------------------ properties
RunActive == pc \in RunningPcs \cup {"done"}

\* input indices processed so far by the current run
ProcessedIdx == start_index .. processed_count - 1

ProcessedKeys == { normalize_barcode(RowAt(i)) : i \in ProcessedIdx }

DataRows(f) == SelectSeq(f.lines, LAMBDA l : l.kind = "row")

IdxOf(ls) == [i \in 1 .. Len(ls) |-> ls[i].idx]

\* the last n lines of the output file
LastLines(f, n) == SubSeq(f.lines, Len(f.lines) - n + 1, Len(f.lines))

\* rows built by the current run: appended to the file or still pending
RunRowSet == { produced[i] : i \in 1 .. Len(produced) }

\* C1: in one run of process_csv the adapter is queried exactly once for
\* every distinct non-empty normalized barcode among the rows processed so
\* far and never for the empty key, and all rows of the run that share a
\* barcode carry the same image_url.
C1_OneQueryPerKey ==
    (pipeline = "process_csv" /\ RunActive) =>
        /\ \A k \in Keys :
             queryCount[k] = IF k # <<>> /\ k \in ProcessedKeys THEN 1 ELSE 0
        /\ \A a \in RunRowSet, b \in RunRowSet :
             normalize_barcode(RowAt(a.idx)) = normalize_barcode(RowAt(b.idx))
                => a.res = b.res

C1_Witness ==
    /\ pipeline = "process_csv"
    /\ pc = "done"
    /\ total = 2
    /\ start_index = 0
    /\ normalize_barcode(rows[1]) = normalize_barcode(rows[2])
    /\ normalize_barcode(rows[1]) # <<>>
    /\ queryCount[normalize_barcode(rows[1])] = 1
    /\ IdxOf(DataRows(outFile)) = << 0, 1 >>
    /\ \A l \in RunRowSet : l.res = << "u1" >>

\* C2: at every commit of process_csv and enrich_csv (periodic or final)
\* the rows of the batch are in the output file before the checkpoint file
\* is opened for writing, and while the batch is being appended the run has
\* not yet written the new processed_count.
C2_AppendBeforeCheckpoint ==
    RunActive =>
        /\ pc \in {"ckpt_open", "ckpt_write"} =>
             /\ Len(written) = processed_count - start_index
             /\ Len(outFile.lines) >= Len(written)
             /\ IdxOf(LastLines(outFile, Len(written))) = written
        /\ pc \in {"append_open", "append_write"} =>
             (commits = <<>> \/ commits[Len(commits)] < processed_count)

C2_Witness ==
    /\ pc = "ckpt_write"
    /\ phase = "final"
    /\ resume
    /\ start_index > 0
    /\ written # <<>>

\* C3: the processed_count stored in the checkpoint file of process_csv
\* never exceeds the number of data rows in the output file.
C3_CheckpointNeverExceedsRows ==
    (pipeline = "process_csv" /\ ckptFile.kind = "object") =>
        ckptFile.v <= Len(DataRows(outFile))

\* C4: within a run of process_csv every commit writes a processed_count
\* greater than the one of the previous commit of the run and greater than
\* the start_index the run loaded.
C4_CommitsStrictlyIncrease ==
    (pipeline = "process_csv" /\ RunActive) =>
        \A i \in 1 .. Len(commits) :
            /\ commits[i] > start_index
            /\ i > 1 => commits[i] > commits[i - 1]

C4_Witness ==
    /\ pipeline = "process_csv"
    /\ pc = "done"
    /\ Len(commits) = 2

\* exactly one data row per input record 0 .. total-1, in input order
ExactRows(f) == IdxOf(DataRows(f)) = [i \in 1 .. total |-> i - 1]

\* the output of one uninterrupted run: the header, then the rows
CompleteOutput(f) ==
    IF total = 0 THEN f.lines = <<>>
    ELSE /\ Len(f.lines) = total + 1
         /\ f.lines[1] = HeaderLine
         /\ ExactRows(f)

\* C5: a resume=True run of process_csv that follows a completed run makes
\* no adapter query and leaves output and checkpoint file as they were; a
\* fresh run that completes leaves the output of a single uninterrupted
\* run, so that is what the re-run leaves.
C5_RerunAfterCompletionChangesNothing ==
    /\ (pipeline = "process_csv" /\ RunActive /\ resume /\ prevRun.outcome = "completed") =>
          /\ outFile = outAtStart
          /\ ckptFile = ckptAtStart
          /\ written = <<>>
          /\ \A k \in Keys : queryCount[k] = 0
    /\ (pipeline = "process_csv" /\ pc = "done" /\ ~resume) => CompleteOutput(outFile)

C5_Witness ==
    /\ pipeline = "process_csv"
    /\ pc = "done"
    /\ resume
    /\ prevRun.outcome = "completed"
    /\ total = 2
    /\ CompleteOutput(outFile)
    /\ ckptFile = CkptDump(2)

\* C6: a resume=True run of process_csv that follows a crashed run with the
\* same arguments and runs to completion leaves exactly one data row per
\* input record, in input order.
C6_ResumeAfterCrashExactlyOnce ==
    (/\ pipeline = "process_csv"
     /\ pc = "done"
     /\ resume
     /\ prevRun.outcome = "crashed"
     /\ fixed_every.on) => ExactRows(outFile)

\* C7 as claimed: a resume=True run of process_csv that follows a run
\* interrupted after a commit processes only rows from the checkpoint
\* onward and makes no adapter query for a barcode resolved in the
\* interrupted run.
C7_NoQueryForResolvedKeys ==
    (/\ pipeline = "process_csv"
     /\ RunActive
     /\ resume
     /\ prevRun.outcome = "crashed"
     /\ prevRun.committed
     /\ ckptAtStart.kind = "object") =>
        /\ \A i \in ProcessedIdx : i >= ckptAtStart.v
        /\ \A k \in prevRun.resolved : queryCount[k] = 0

\* C7 amended: such a run starts at the processed_count it loaded, writes
\* no row before it, queries exactly once every distinct non-empty barcode
\* among the rows it processes (also one resolved in the interrupted run)
\* and makes no query for a barcode that occurs only before the checkpoint.
C7_ResumeQueriesRemainingKeysOnce ==
    (/\ pipeline = "process_csv"
     /\ RunActive
     /\ resume
     /\ prevRun.outcome = "crashed"
     /\ prevRun.committed) =>
        /\ ckptAtStart.kind = "object" => start_index = ckptAtStart.v
        /\ \A i \in 1 .. Len(written) : written[i] >= start_index
        /\ \A k \in Keys :
             queryCount[k] =
                IF k # <<>> /\ \E i \in ProcessedIdx : i >= start_index /\ i < total
                                  /\ normalize_barcode(rows[i + 1]) = k
                THEN 1 ELSE 0

C7_Witness ==
    /\ pipeline = "process_csv"
    /\ pc = "done"
    /\ resume
    /\ prevRun.outcome = "crashed"
    /\ prevRun.committed
    /\ ckptAtStart = CkptDump(1)
    /\ start_index = 1
    /\ \E k \in prevRun.resolved : queryCount[k] = 1

\* C8: whenever the output file of process_csv or enrich_csv holds data
\* rows, its first line is the header and it holds exactly one header.
C8_HeaderOnceAndFirst ==
    DataRows(outFile) # <<>> =>
        /\ outFile.lines[1].kind = "header"
        /\ Cardinality({ i \in 1 .. Len(outFile.lines) : outFile.lines[i].kind = "header" }) = 1

\* C9: the rows a run of process_csv or enrich_csv has appended are those
\* of the input indices start_index, start_index + 1, ... in this order,
\* without gap or repetition, and they are the last lines of the file.
C9_RowsAppendedInInputOrder ==
    RunActive =>
        /\ written = [i \in 1 .. Len(written) |-> start_index + i - 1]
        /\ Len(outFile.lines) >= Len(written)
        /\ IdxOf(LastLines(outFile, Len(written))) = written

C9_Witness ==
    /\ pipeline = "enrich_csv"
    /\ pc = "done"
    /\ Len(commits) = 2
    /\ written = << 0, 1 >>

\* C10: with resume=True a checkpoint file that is missing, unreadable,
\* empty, not JSON, not a JSON object, or whose processed_count cannot be
\* converted to an integer never makes process_csv or enrich_csv fail: the
\* run starts with start_index = 0.  Other members of a valid checkpoint
\* object are ignored: the run starts at its processed_count.
C10_CorruptCheckpointStartsAtZero ==
    /\ pc # "load_error"
    /\ (RunActive /\ resume /\ ckptAtStart \in CorruptCkpts) => start_index = 0
    /\ (RunActive /\ resume /\ ckptAtStart.kind = "object" /\ ckptAtStart.t = "int")
          => start_index = ckptAtStart.v
    /\ (RunActive /\ resume /\ ckptAtStart.kind = "object" /\ ckptAtStart.s = << "2" >>)
          => start_index = 2
    /\ (RunActive /\ resume /\ ckptAtStart.kind = "object" /\ ckptAtStart.t = "absent")
          => start_index = 0

C10_Witness ==
    /\ pc = "done"
    /\ resume
    /\ ckptAtStart = CkptFile("object", "null", 0, <<>>, FALSE)
    /\ total = 2
    /\ start_index = 0
    /\ CompleteOutput(outFile)
    /\ ckptFile = CkptDump(2)

\* no input record has two data rows in the file
NoDuplicateRows(f) ==
    \A i \in 1 .. Len(DataRows(f)), j \in 1 .. Len(DataRows(f)) :
        DataRows(f)[i].idx = DataRows(f)[j].idx => i = j

\* C11: a resume=True run of process_csv that finds a missing or corrupt
\* checkpoint (start_index 0) and an output file with rows committed by an
\* earlier run never leaves two data rows for the same input record.
C11_NoDuplicateRowsAfterDegradedLoad ==
    (/\ pipeline = "process_csv"
     /\ RunActive
     /\ resume
     /\ ckptAtStart \in CorruptCkpts
     /\ DataRows(outAtStart) # <<>>
     /\ NoDuplicateRows(outAtStart)) => NoDuplicateRows(outFile)

\* lines of the file a as the first lines of the file b
IsPrefix(a, b) == Len(a) <= Len(b) /\ SubSeq(b, 1, Len(a)) = a

\* C12: a resumed run of process_csv or enrich_csv with start_index > 0
\* makes adapter queries only for the barcodes of rows at or after
\* start_index and one per row processed at most, writes no row with an
\* index below start_index, and only appends to the output file: the lines
\* the file held when the run started stay its first lines.
C12_ResumeSkipsCommittedRows ==
    (RunActive /\ resume /\ start_index > 0) =>
        /\ \A k \in Keys :
             /\ queryCount[k] > 0 =>
                  \E i \in ProcessedIdx : i >= start_index /\ normalize_barcode(RowAt(i)) = k
             /\ queryCount[k] <=
                  Cardinality({ i \in ProcessedIdx : normalize_barcode(RowAt(i)) = k })
        /\ \A i \in 1 .. Len(written) : written[i] >= start_index
        /\ \A i \in 1 .. Len(produced) : produced[i].idx >= start_index
        /\ outFile.exists
        /\ IsPrefix(outAtStart.lines, outFile.lines)
        /\ Len(outFile.lines) = Len(outAtStart.lines) + Len(written)

C12_Witness ==
    /\ pipeline = "enrich_csv"
    /\ pc = "done"
    /\ resume
    /\ start_index = 1
    /\ total = 2
    /\ written = << 1 >>
    /\ outAtStart.lines = << HeaderLine, FileLine(RowLine(0, <<>>)) >>
    /\ IdxOf(DataRows(outFile)) = << 0, 1 >>
    /\ \E k \in Keys : k # <<>> /\ queryCount[k] = 1

\* C13: when a fresh run of process_csv or enrich_csv over total >= 1 rows
\* returns, whatever checkpoint_every is (a divisor of total, a smaller
\* non-divisor, larger than total, zero, negative), the output file holds
\* one data row for every index 0 .. total-1 and the checkpoint file holds
\* processed_count = total.
C13_FreshRunCommitsEveryRow ==
    (pc = "done" /\ ~resume /\ total >= 1) =>
        /\ \A i \in 0 .. total - 1 :
             \E j \in 1 .. Len(DataRows(outFile)) : DataRows(outFile)[j].idx = i
        /\ ExactRows(outFile)
        /\ ckptFile = CkptDump(total)

C13_Witness ==
    /\ pc = "done"
    /\ ~resume
    /\ total = 3
    /\ checkpoint_every = 2
    /\ commits = << 2, 3 >>
    /\ ExactRows(outFile)
    /\ ckptFile = CkptDump(3)

CommitPcs == {"append_open", "append_write", "ckpt_open", "ckpt_write"}

Max(a, b) == IF a >= b THEN a ELSE b

\* rows processed by the run since the last multiple of checkpoint_every
SinceMultiple ==
    IF checkpoint_every > 0
    THEN processed_count
           - Max(start_index, processed_count - (processed_count % checkpoint_every))
    ELSE processed_count - start_index

\* C14 as claimed: in every run, fresh or resumed from any start_index, a
\* commit begins exactly when the pending batch holds checkpoint_every rows
\* or the last index has been processed, and at no other time.
C14_CommitWhenBatchFull ==
    RunActive =>
        /\ pc = "append_open" =>
             (Len(pending_batch) = checkpoint_every \/ idx >= total)
        /\ (pc = "loop" /\ checkpoint_every >= 1) =>
             Len(pending_batch) # checkpoint_every

\* C14 amended: a periodic commit begins exactly when checkpoint_every > 0
\* and the count of rows processed (idx + 1 of the row just handled) is a
\* multiple of it, a final commit exactly when rows are pending after the
\* loop; the pending batch holds the rows processed since the last such
\* multiple (or since start_index), never more than checkpoint_every, and
\* fewer when the run started between two multiples.  Every commit writes
\* the batch, then the count of rows processed.
C14_CommitWhenCountIsMultiple ==
    (RunActive /\ start_index >= 0) =>
        /\ (pc \in CommitPcs /\ phase = "periodic") =>
             /\ checkpoint_every > 0
             /\ processed_count % checkpoint_every = 0
             /\ idx = processed_count
        /\ (pc \in CommitPcs /\ phase = "final") =>
             /\ idx >= total
             /\ processed_count = total
             /\ pending_batch # <<>>
        /\ pc = "loop" => Len(pending_batch) = SinceMultiple
        /\ pc = "append_open" =>
             Len(pending_batch) =
                IF phase = "periodic"
                THEN processed_count - Max(start_index, processed_count - checkpoint_every)
                ELSE SinceMultiple
        /\ checkpoint_every >= 1 => Len(pending_batch) <= checkpoint_every
        /\ (pc = "loop" /\ commits # <<>> /\ pending_batch = <<>>) =>
             /\ commits[Len(commits)] = processed_count
             /\ ckptFile = CkptDump(processed_count)
             /\ Len(written) = processed_count - start_index

C14_Witness ==
    /\ pc = "append_open"
    /\ phase = "periodic"
    /\ resume
    /\ start_index = 1
    /\ checkpoint_every = 2
    /\ total = 3
    /\ idx = 2
    /\ Len(pending_batch) = 1

\* C15: for checkpoint_every >= 1, at every point of a run of process_csv
\* at most checkpoint_every rows are processed and not yet committed, and
\* the checkpoint file (what a resume after a kill at this point loads)
\* holds the processed_count of the last commit the run completed, never a
\* larger value, so that the resume re-does at most checkpoint_every rows
\* (stated for the points after the first commit of the run).
C15_CrashLosesAtMostOneBatch ==
    (pipeline = "process_csv" /\ pc \in RunningPcs /\ checkpoint_every >= 1) =>
        /\ Len(pending_batch) <= checkpoint_every
        /\ LET resumeAt == LoadCheckpoint(TRUE, ckptFile).start_index
           IN  commits # <<>> =>
                  /\ resumeAt = commits[Len(commits)]
                  /\ processed_count - resumeAt <= checkpoint_every

FindSources == SourcesOf("find_image_url_zero_cost")

Find == harness.fn = "find_image_url_zero_cost"

Lookup == harness.fn \in {"lookup_go_upc", "lookup_barcode_lookup"}

\* the harness has returned without a result
ReturnedEmpty == harness.pc = "returned" /\ harness.yielded = {}

\* C16 as claimed: in find_image_url_zero_cost an attempt that ends with
\* "not found" (HTTP 404, or an answer whose status is not 1) is never
\* followed by another attempt on the same source.
C16_NotFoundEndsAttempts ==
    Find => ~harness.retried_not_found

\* C16 amended: "not found" is retried like every other attempt without a
\* usable image: after such an attempt the harness sleeps and goes on with
\* the same source, and a source is left only after retries attempts.
C16_EveryFailureIsRetried ==
    Find =>
        /\ harness.pc = "sleep" =>
             /\ harness.last \in {"not_found", "network", "malformed", "no_image"}
             /\ harness.fetches[CurrentSource] = harness.attempt + 1
        /\ harness.pc = "fetch" =>
             /\ harness.fetches[CurrentSource] = harness.attempt
             /\ harness.attempt < harness.retries
        /\ harness.pc \in {"fetch", "sleep", "returned"} =>
             \A i \in 1 .. Len(FindSources) :
                 i < harness.src => harness.fetches[FindSources[i]] = harness.retries

C16_Witness ==
    /\ Find
    /\ harness.pc = "returned"
    /\ harness.retried_not_found
    /\ harness.src = 2
    /\ harness.fetches["openfoodfacts"] = 2
    /\ harness.result.source = "openbeautyfacts"

\* C17: find_image_url_zero_cost with retries = R fetches at most R times
\* per source and at most 3 * R times in all; when no attempt yields an
\* image it has made exactly R attempts on each of the three sources and
\* returns (None, None).
C17_AtMostRetriesAttemptsPerSource ==
    Find =>
        /\ \A i \in 1 .. Len(FindSources) :
             harness.fetches[FindSources[i]] <= harness.retries
        /\ harness.fetches[FindSources[1]] + harness.fetches[FindSources[2]]
             + harness.fetches[FindSources[3]] <= 3 * harness.retries
        /\ ReturnedEmpty =>
             /\ \A i \in 1 .. Len(FindSources) :
                  harness.fetches[FindSources[i]] = harness.retries
             /\ harness.result.img = None
             /\ harness.result.source = None

C17_Witness ==
    /\ Find
    /\ ReturnedEmpty
    /\ harness.retries = 2
    /\ \A i \in 1 .. 3 : harness.fetches[FindSources[i]] = 2
    /\ harness.result = NoResult

\* C18 as claimed: lookup_go_upc and lookup_barcode_lookup with
\* retries = R fetch the page at most R times.
C18_LookupAtMostRetriesFetches ==
    (Lookup /\ harness.retries >= 1) =>
        harness.fetches[CurrentSource] <= harness.retries

\* C18 amended: they fetch the page at most R + 1 times (the first attempt
\* and R retries), exactly R + 1 times when no attempt finds anything, and
\* then return the empty result.
C18_LookupAtMostRetriesPlusOne ==
    Lookup =>
        /\ harness.fetches[CurrentSource] <= harness.retries + 1
        /\ ReturnedEmpty =>
             /\ harness.fetches[CurrentSource] = harness.retries + 1
             /\ harness.result.imgs = <<>>
             /\ harness.result.desc = None

C18_Witness ==
    /\ harness.fn = "lookup_go_upc"
    /\ ReturnedEmpty
    /\ harness.retries = 1
    /\ harness.fetches["go_upc"] = 2

\* C19: the harnesses sleep between consecutive attempts on a source and
\* not after the final one: when all n attempts on a source have failed,
\* n - 1 sleeps were made for that source.
C19_NoSleepAfterFinalAttempt ==
    /\ (harness.pc = "fetch" /\ harness.attempt > 0) =>
          harness.sleeps[CurrentSource] = harness.attempt
    /\ (ReturnedEmpty /\ harness.retries >= 1) =>
          \A s \in AllSources :
              harness.fetches[s] >= 1 => harness.sleeps[s] = harness.fetches[s] - 1

\* C20: find_image_url_zero_cost queries openfoodfacts, then
\* openbeautyfacts, then openpetfoodfacts, a source only after all attempts
\* on the ones before it gave no image; it returns the image of the first
\* source in this order an attempt on which yields a usable image, with
\* that source's name, and fetches nothing after that attempt.
C20_FirstSourceInOrderWins ==
    Find =>
        /\ harness.fetches["openbeautyfacts"] > 0 =>
             /\ harness.fetches["openfoodfacts"] = harness.retries
             /\ "openfoodfacts" \notin harness.yielded
        /\ harness.fetches["openpetfoodfacts"] > 0 =>
             /\ harness.fetches["openbeautyfacts"] = harness.retries
             /\ "openbeautyfacts" \notin harness.yielded
        /\ Cardinality(harness.yielded) <= 1
        /\ harness.yielded # {} =>
             /\ harness.pc = "returned"
             /\ harness.result.source \in harness.yielded
             /\ harness.result.img \in {"u1", "u2"}
             /\ harness.last = "found"
        /\ (harness.pc = "returned" /\ harness.yielded = {}) =>
             harness.result.source = None

C20_Witness ==
    /\ Find
    /\ harness.pc = "returned"
    /\ harness.retries = 2
    /\ harness.fetches["openfoodfacts"] = 2
    /\ harness.fetches["openbeautyfacts"] = 1
    /\ harness.fetches["openpetfoodfacts"] = 0
    /\ harness.result.img = "u2"
    /\ harness.result.source = "openbeautyfacts"

\* rows built by the run for the barcode k
RowsOfKey(k) == { r \in RunRowSet : normalize_barcode(RowAt(r.idx)) = k }

\* C21: whatever the answers to the attempts are (network error, HTTP error
\* status, malformed JSON, not found, product without image), no exception
\* leaves the harness and process_csv does not abort; the result of a query
\* is cached, a barcode whose sources are exhausted (retries attempts on
\* each, none with an image) is cached as (None, None) and its rows carry
\* an empty image_url, and the run goes on to the last row.
C21_AdapterFailuresNeverAbort ==
    pipeline = "process_csv" =>
        /\ pc # "error"
        /\ harness.pc # "raised"
        /\ harness.pc = "consumed" =>
             /\ harness.barcode \in DOMAIN barcode_to_image
             /\ barcode_to_image[harness.barcode] =
                   << harness.result.img, harness.result.source >>
             /\ \A r \in RowsOfKey(harness.barcode) :
                   r.res = << OrEmpty(harness.result.img) >>
             /\ harness.yielded = {} =>
                   /\ barcode_to_image[harness.barcode] = << None, None >>
                   /\ \A r \in RowsOfKey(harness.barcode) : r.res = << "" >>
                   /\ \A i \in 1 .. Len(FindSources) :
                        harness.fetches[FindSources[i]] = harness.retries
        /\ pc = "done" =>
             /\ Len(produced) = total
             /\ ExactRows(outFile)
             /\ total >= 1 => ckptFile = CkptDump(total)

C21_Witness ==
    /\ pipeline = "process_csv"
    /\ pc = "done"
    /\ total = 2
    /\ harness.retries = 2
    /\ harness.pc = "consumed"
    /\ harness.last = "malformed"
    /\ DOMAIN barcode_to_image = { <<"1">>, <<"2">> }
    /\ \A k \in DOMAIN barcode_to_image : barcode_to_image[k] = << None, None >>
    /\ \A r \in RunRowSet : r.res = << "" >>
    /\ ExactRows(outFile)

\* C22: when the barcode column is not in the input's header, process_csv
\* and enrich_csv raise before any query is made and before the output
\* directory, the output file or the checkpoint file is created or changed.
C22_MissingColumnRaisesBeforeAnyEffect ==
    (~env.has_column /\ pc # "idle") =>
        /\ pc = "config_error"
        /\ \A k \in Keys : queryCount[k] = 0
        /\ produced = <<>>
        /\ written = <<>>
        /\ commits = <<>>
        /\ env.out_dir = env.dir_at_start
        /\ outFile = outAtStart
        /\ ckptFile = ckptAtStart

C22_Witness ==
    /\ ~env.has_column
    /\ pc = "config_error"
    /\ total = 2
    /\ ~env.out_dir
    /\ outFile = NoFile
    /\ ckptFile = CkptMissing

\* C23: a failed checkpoint write after the batch data was written stops
\* the run and is surfaced; the run never goes on with the checkpoint
\* update lost.  Stated for ImageScraper.process_csv: once a checkpoint
\* write of the run has failed, the run is over.
C23_FailedCheckpointWriteStopsRun ==
    scraper.lost_update => scraper.pc \in {"error", "crashed"}

\* the count a later run with resume reads from the checkpoint file
ResumeCount(c) == LoadCheckpoint(TRUE, c).start_index

\* the count of the checkpoint before the write in progress
PreviousCount ==
    IF commits # <<>> THEN commits[Len(commits)] ELSE ResumeCount(ckptAtStart)

\* C24: the checkpoint write of process_csv is atomic for a later load:
\* while a run is under way, whatever the moment the process is killed, a
\* run with resume reads the previous count or the new one, never a count
\* that an empty or partial file degrades to 0.
C24_CheckpointWriteAtomicForLoad ==
    (pipeline = "process_csv" /\ pc \in RunningPcs) =>
        ResumeCount(ckptFile) \in { PreviousCount, processed_count }

\* C26: in a run of enrich_csv the sites are looked up once for every
\* distinct non-empty barcode among the rows processed so far (at its first
\* occurrence) and never for an empty barcode.
C26_EnrichLooksUpFirstOccurrenceOnly ==
    (pipeline = "enrich_csv" /\ RunActive) =>
        \A k \in Keys :
           queryCount[k] = IF k # <<>> /\ k \in ProcessedKeys THEN 1 ELSE 0

\* the run resumed after the product start_index - 1 of the checkpoint
ScraperResumed == scraper.start_index > 1

\* C28: in a resumed run of ImageScraper.process_csv the products before
\* the resume position are not searched again, and the output file keeps
\* for them the Image Src it held when the run began (the ones found by
\* the interrupted run).
C28_ResumedRunKeepsEarlierResults ==
    (/\ ScraperResumed
     /\ scraper.pc \in {"loop", "ckpt", "clear", "done"}
     /\ Len(scraper.out_at_start.rows) = Len(scraper.input)) =>
        /\ scraper.searched \cap (1 .. scraper.start_index - 1) = {}
        /\ Len(scraper.out.rows) = Len(scraper.input)
        /\ \A j \in 1 .. scraper.start_index - 1 :
              scraper.out.rows[j] = scraper.out_at_start.rows[j]

\* C29: progress and checkpoint are saved at every index i >= start_index
\* that is a multiple of every_n_products and that the loop has passed,
\* also when the product i already has an Image Src.
C29_SaveAtEveryMultiple ==
    scraper.pc = "loop" =>
        \A j \in scraper.start_index .. scraper.i - 1 :
            SaveDue(j, scraper.cfg.every_n_products) => j \in scraper.saved

\* the decimal digit characters of a string, in their order
DecimalDigitsOf(cs) == SelectSeq(cs, LAMBDA ch : ch \in DigitChars)

\* C25: normalize_barcode returns, for None and for every string, exactly
\* the subsequence of the decimal digit characters of its argument (the
\* empty string when there is none), and the copy of
\* barcode_image_url_finder.py and the copy of html_barcode_image_fetcher.py
\* return the same.
C25_NormalizeKeepsDecimalDigitsOnly ==
    (call.fn = "normalize_barcode" /\ call.pc = "returned") =>
        /\ call.result.finder = DecimalDigitsOf(OrEmptyStr(call.arg))
        /\ call.result.fetcher = call.result.finder

\* C27: the header of the output of process_csv is the columns of the
\* input in their order, followed by image_url unless the input has it (no
\* column twice), and an output row has in every column of the input the
\* value of the input row, also when the input already has an image_url
\* column.
C27_OutputKeepsInputColumns ==
    (call.fn = "process_csv" /\ call.pc = "returned") =>
        LET h == call.arg.fieldnames
        IN  /\ call.result.header =
                 IF "image_url" \in ColumnsOf(h) THEN h ELSE Append(h, "image_url")
            /\ \A i \in 1 .. Len(call.result.header), j \in 1 .. Len(call.result.header) :
                  call.result.header[i] = call.result.header[j] => i = j
            /\ Len(call.result.line) = Len(call.result.header)
            /\ \A i \in 1 .. Len(h) : call.result.line[i] = call.arg.row[h[i]]

\* the place of the first entry of seq equal to x
FirstIndex(x, seq) == CHOOSE i \in 1 .. Len(seq) :
                         seq[i] = x /\ \A j \in 1 .. i - 1 : seq[j] # x

NoDoubles(seq) == \A i \in 1 .. Len(seq), j \in 1 .. Len(seq) : seq[i] = seq[j] => i = j

UrlsOf(results) == [i \in 1 .. Len(results) |-> results[i].url]

\* every url of the result is there once, with the first result collected
\* for it
KeepsFirstCollected(all, result) ==
    /\ NoDoubles(UrlsOf(result))
    /\ \A i \in 1 .. Len(result) :
          result[i].seq = FirstIndex(result[i].url, UrlsOf(all))

ParseReturned == call.fn = "parse_image_candidates" /\ call.pc = "returned"

SearchReturned == call.fn = "search_product_images" /\ call.pc = "returned"

\* parse_image_candidates returns every candidate once, in the order of
\* the first occurrences
ParseFirstOccurrenceOrder ==
    ParseReturned =>
        LET cands == candidates(call.arg)
        IN  /\ NoDoubles(call.result)
            /\ \A i \in 1 .. Len(cands) : InSeq(cands[i], call.result)
            /\ \A i \in 1 .. Len(call.result) : InSeq(call.result[i], cands)
            /\ \A i \in 1 .. Len(call.result), j \in 1 .. Len(call.result) :
                  i < j => FirstIndex(call.result[i], cands) < FirstIndex(call.result[j], cands)

\* C30 as stated: both functions remove doubles by URL keeping the first
\* occurrence, every distinct candidate URL is in the result exactly once,
\* and parse_image_candidates returns them in first-occurrence order.
C30_EveryUrlExactlyOnce ==
    /\ ParseFirstOccurrenceOrder
    /\ SearchReturned =>
          /\ KeepsFirstCollected(call.arg, call.result)
          /\ \A i \in 1 .. Len(call.arg) : InSeq(call.arg[i].url, UrlsOf(call.result))

\* C30, amended: parse_image_candidates returns every distinct candidate
\* once in first-occurrence order; search_product_images keeps for a URL the
\* first result collected, orders the results kept by confidence (highest
\* first, equal ones in the order collected) and returns the first 15 of
\* them: no URL twice, and every distinct URL when there are at most 15.
C30_UrlAtMostOnceTop15 ==
    /\ ParseFirstOccurrenceOrder
    /\ SearchReturned =>
          LET distinct == { call.arg[i].url : i \in 1 .. Len(call.arg) }
              res == call.result
          IN  /\ KeepsFirstCollected(call.arg, res)
              /\ Len(res) = IF Cardinality(distinct) < TopN
                            THEN Cardinality(distinct) ELSE TopN
              /\ \A i \in 1 .. Len(res), j \in 1 .. Len(res) :
                    i < j => /\ KeyGE(res[i], res[j])
                             /\ KeyGE(res[j], res[i]) => res[i].seq < res[j].seq
              /\ \A i \in 1 .. Len(res) :
                    res[i].confidence =
                       call.arg[res[i].seq].confidence
                          + (IF is_high_resolution(res[i].url) THEN 2 ELSE 0)

C30_Witness ==
    /\ SearchReturned
    /\ Len(call.arg) = TopN + MaxExtra + MaxCands
    /\ Len(call.result) = TopN
    /\ call.result[1].url = 3
    /\ call.result[2].url = 2
    /\ \A i \in 1 .. Len(call.result) : call.result[i].url # TopN + MaxExtra

\* the strings that are empty, blank or have blanks around them
BlankOrPadded == { "", "  ", " a ", " u3 " }

CleanUrl(v) == IsStr(v) /\ v \notin BlankOrPadded

PickReturned == call.fn = "pick_best_image_url" /\ call.pc = "returned"

\* C31: no empty or whitespace-only URL is emitted: pick_best_image_url
\* returns None or a non-blank string without blanks around it,
\* parse_image_candidates returns only such strings, and the image_url
\* process_csv writes is empty (not found) or such a string.
C31_NoBlankUrlEmitted ==
    /\ PickReturned =>
          /\ call.result.url = None \/ CleanUrl(call.result.url)
          /\ call.result.image_url = "" \/ CleanUrl(call.result.image_url)
          /\ call.result.image_url = OrEmpty(call.result.url)
    /\ ParseReturned =>
          \A i \in 1 .. Len(call.result) : CleanUrl(call.result[i])

C31_Witness ==
    /\ PickReturned
    /\ DOMAIN call.arg = {"image_url", "image_thumb_url"}
    /\ call.arg["image_url"] = "  "
    /\ call.arg["image_thumb_url"] = " u3 "
    /\ call.result.url = "u3"
    /\ call.result.image_url = "u3"

\* the (section, size) pairs in the order they are scanned
Locations ==
    [i \in 1 .. Len(Sections) * Len(Sizes) |->
        << Sections[((i - 1) \div Len(Sizes)) + 1], Sizes[((i - 1) % Len(Sizes)) + 1] >>]

\* the items of selected_images[section][size], none when a dict is missing
ItemsAt(product, loc) ==
    IF /\ "selected_images" \in DOMAIN product
       /\ product["selected_images"].is_dict
       /\ loc[1] \in DOMAIN product["selected_images"].sections
       /\ product["selected_images"].sections[loc[1]].is_dict
       /\ loc[2] \in DOMAIN product["selected_images"].sections[loc[1]].sizes
       /\ product["selected_images"].sections[loc[1]].sizes[loc[2]].is_dict
    THEN product["selected_images"].sections[loc[1]].sizes[loc[2]].items
    ELSE <<>>

NonBlank(v) == IsStr(v) /\ v \notin {"", "  "}

ItemSet(items) == { items[i] : i \in 1 .. Len(items) }

LangRank(lang) == CHOOSE i \in 1 .. Len(LangOrder) : LangOrder[i] = lang

\* the entry preferred among the items: 'en', else the smallest language
\* key, among those with a non-blank string
Preferred(items) ==
    LET good == { it \in ItemSet(items) : NonBlank(it[2]) }
    IN  IF \E it \in good : it[1] = "en"
        THEN CHOOSE it \in good : it[1] = "en"
        ELSE CHOOSE it \in good : \A o \in good : LangRank(it[1]) <= LangRank(o[1])

\* what the claim says pick_best_image_url returns
ClaimedPick(product) ==
    LET keys == { i \in 1 .. Len(PreferredKeys) : NonBlank(Get(product, PreferredKeys[i])) }
        locs == { i \in 1 .. Len(Locations) :
                    \E it \in ItemSet(ItemsAt(product, Locations[i])) : NonBlank(it[2]) }
    IN  IF keys # {}
        THEN Strip(Get(product, PreferredKeys[CHOOSE i \in keys : \A j \in keys : i <= j]))
        ELSE IF locs # {}
             THEN Strip(Preferred(ItemsAt(product,
                        Locations[CHOOSE i \in locs : \A j \in locs : i <= j]))[2])
             ELSE None

\* the products of the same content with the items of front/small inserted
\* in another order
Reordered(product) ==
    IF ItemsAt(product, << "front", "small" >>) = <<>> THEN { product }
    ELSE { [product EXCEPT !["selected_images"].sections["front"].sizes["small"].items = its] :
              its \in { l \in LangDicts :
                          ItemSet(l) = ItemSet(ItemsAt(product, << "front", "small" >>)) } }

\* C32: pick_best_image_url returns the (stripped) value of the first key
\* of the preference list that holds a non-blank string, otherwise the
\* first non-blank entry of selected_images in the order of the sections
\* front, ingredients, nutrition and of the sizes display, small, thumb,
\* 'en' first and else the smallest language key, otherwise None; products
\* of the same content give the same result whatever the order of insertion.
C32_PickIsOrderIndependent ==
    PickReturned =>
        /\ call.result.url = ClaimedPick(call.arg)
        /\ \A q \in Reordered(call.arg) : pick_best_image_url(q) = call.result.url

C32_Witness ==
    /\ PickReturned
    /\ DOMAIN call.arg = {"image_url", "selected_images"}
    /\ call.arg["image_url"] = "  "
    /\ ItemsAt(call.arg, << "front", "small" >>) = << <<"fr", "u4">>, <<"de", " u3 ">> >>
    /\ ItemsAt(call.arg, << "ingredients", "display" >>) = << <<"en", "u5">> >>
    /\ call.result.url = "u3"

\* C33: whatever integer the checkpoint file holds as processed_count
\* (negative or beyond the number of rows included), a resumed run of
\* process_csv processes only the row indices 0 .. total - 1, in increasing
\* order and each at most once, and writes no processed_count outside
\* 0 .. total.
C33_ResumeStaysWithinRows ==
    (pipeline = "process_csv" /\ resume /\ pc \in RunningPcs \cup {"done", "error"}) =>
        /\ \A i \in 1 .. Len(produced) : produced[i].idx \in 0 .. total - 1
        /\ \A i \in 1 .. Len(produced), j \in 1 .. Len(produced) :
              i < j => produced[i].idx < produced[j].idx
        /\ \A i \in 1 .. Len(commits) : commits[i] \in 0 .. total

\* the attempts made so far by the call of find_image_url_zero_cost
AttemptsOfCall ==
    harness.fetches["openfoodfacts"] + harness.fetches["openbeautyfacts"]
       + harness.fetches["openpetfoodfacts"]

\* C34: a run of process_csv or enrich_csv in which every adapter call
\* returns ends, whatever the input, retries and checkpoint_every: the call
\* made for a row of process_csv makes at most 3 * retries attempts, and the
\* run that has entered its loop reaches the final flush and returns.
C34_RunTerminates ==
    /\ [](AttemptsOfCall <= Len(FindSources) * harness.retries)
    /\ (pc = "loop") ~> (pc = "done" /\ Len(produced) = total
                            /\ (total > 0 => ExactRows(outFile)))

C34_Witness ==
    /\ pipeline = "process_csv"
    /\ pc = "done"
    /\ total = 2
    /\ checkpoint_every = -1
    /\ harness.retries = 2
    /\ AttemptsOfCall = 6
    /\ ExactRows(outFile)

\* C35: in ImageScraper.process_csv a product that comes with an image (a
\* non-blank Image Src) is never searched for, is written with the Image Src
\* and Image Alt Text it came with, and moves neither downloaded_count nor
\* failed_count: the two counters count the searches made and nothing else.
C35_ProductWithImageUntouched ==
    /\ \A p \in 1 .. Len(scraper.input) :
          scraper.input[p] = "old" =>
             /\ p \notin scraper.searched
             /\ Len(scraper.products) >= p => scraper.products[p] = "old"
             /\ Len(scraper.out.rows) >= p => scraper.out.rows[p] = "old"
    /\ scraper.downloaded_count + scraper.failed_count = Cardinality(scraper.searched)
    /\ scraper.pc # "crashed" =>
          scraper.downloaded_count =
             Cardinality({ p \in scraper.searched : scraper.products[p] = "new" })

C35_Witness ==
    /\ scraper.pc = "done"
    /\ scraper.input = << "old", "", "old" >>
    /\ scraper.out.rows = << "old", "new", "old" >>
    /\ scraper.searched = { 2 }
    /\ scraper.downloaded_count = 1
    /\ scraper.failed_count = 0

\* C36: when ImageScraper.process_csv has returned normally the checkpoint
\* file does not exist, whether checkpointing is enabled or not, so that the
\* next run starts at product 1; and a run starts after product 1 only when
\* checkpointing is enabled, resume is on and the file holds an object.
C36_NoCheckpointAfterReturn ==
    /\ scraper.pc = "done" => scraper.ckpt = NoScraperCkpt
    /\ (scraper.pc = "loop" /\ scraper.i = 1 /\ scraper.start_index > 1) =>
          /\ scraper.cfg.enabled
          /\ scraper.cfg.resume
          /\ scraper.ckpt.kind = "object"

\* C37: with the defaults of load_config (no config file), and with a config
\* file that has a search_sources section, search_product_images returns
\* its list without raising for every product that has a Title, a Vendor or
\* a Variant SKU: no lookup in the configuration raises KeyError.
C37_NoKeyErrorFromConfig ==
    (/\ call.pc = "returned"
     /\ call.fn = "config_lookups"
     /\ ~call.arg.file.exists \/ call.arg.file.has_sources
     /\ Queries(call.arg.product) # {})
       => call.result.raised = "ok"

====
